---------------------------- MODULE Spec2Model ----------------------------
(***************************************************************************)
(* Pixel_Pirates ("Penny"): the financial-health scoring engine of        *)
(* src/server.js and the response orchestrator of                         *)
(* src/public/gemini-service.js (second version, lines 303-665).          *)
(*                                                                         *)
(* Numbers.  Money amounts are integers.  A ratio is a pair <<n, d>> with  *)
(* d >= 0 standing for n/d; <<1, 0>> is Number.POSITIVE_INFINITY.  Ratios  *)
(* are compared with the decimal literals of the source by cross          *)
(* multiplication, which is exact.                                         *)
(*                                                                         *)
(* JavaScript values that reach a numeric coercion are tagged records      *)
(* [k, n, d]: k = "num" is the finite number n/d, "numstr" a string that   *)
(* spells n/d, "str" any other non-empty string, "undef" a missing field,  *)
(* "null" null, "inf" Infinity, "nan" NaN.                                 *)
(***************************************************************************)
EXTENDS Integers, Sequences, FiniteSets, TLC

VARIABLES
    sc,          \* scoring run: the last evaluation of the scoring pipeline
    calls,       \* analyzeFinancialData invocations, one record per call slot
    petMessage   \* textContent of the #petMessage element

vars == <<sc, calls, petMessage>>

(***************************************************************************)
(* JavaScript values and Number()                                          *)
(***************************************************************************)
Num(v) == [k |-> "num", n |-> v, d |-> 1]

Frac(a, b) == [k |-> "num", n |-> a, d |-> b]

NumStr(v) == [k |-> "numstr", n |-> v, d |-> 1]

Undef == [k |-> "undef", n |-> 0, d |-> 1]

Str == [k |-> "str", n |-> 0, d |-> 1]

Null == [k |-> "null", n |-> 0, d |-> 1]

Infinity == [k |-> "inf", n |-> 1, d |-> 0]

NaN == [k |-> "nan", n |-> 0, d |-> 1]

\* Number(x), unary plus: null becomes 0, a numeric string its value,
\* undefined and any other string NaN.
ToNumber(x) ==
    CASE x.k \in {"num", "numstr"} -> [k |-> "num", n |-> x.n, d |-> x.d]
      [] x.k = "null" -> Num(0)
      [] x.k = "inf" -> Infinity
      [] OTHER -> NaN

IsFiniteNumber(x) == x.k = "num"

\* typeof x === 'number'
TypeofNumber(x) == x.k \in {"num", "inf", "nan"}

\* Math.round of the finite number n/d (d > 0): floor(n/d + 1/2)
MathRound(n, d) == (2 * n + d) \div (2 * d)

\* Math.ceil of n/d (d > 0)
MathCeil(n, d) == -((-n) \div d)

Max(a, b) == IF a >= b THEN a ELSE b

Min(a, b) == IF a <= b THEN a ELSE b

\* `Number(x) || 0` and `+x || 0` for the money fields: finite integers here,
\* of either sign, which the expression leaves as they are
NumberOrZero(x) ==
    LET v == ToNumber(x)
    IN  IF v.k = "num" THEN v.n \div v.d ELSE 0

(***************************************************************************)
(* Ratios                                                                  *)
(***************************************************************************)
PosInf == <<1, 0>>

\* r <= a/b, r >= a/b, r < a/b, r > a/b  (b > 0)
Le(r, a, b) == r[1] * b <= a * r[2]

Ge(r, a, b) == r[1] * b >= a * r[2]

Lt(r, a, b) == r[1] * b < a * r[2]

Gt(r, a, b) == r[1] * b > a * r[2]

IsFiniteRatio(r) == r[2] > 0

(***************************************************************************)
(* Deterministic scoring, server side (src/server.js)                      *)
(***************************************************************************)
ALLOWED_STATES ==
    <<"ATROCIOUS", "CRITICAL", "STRUGGLING", "SURVIVING", "HEALTHY", "THRIVING",
      "FANTASTIC">>

\* clamp0to100 of the server, applied to a JavaScript value
serverClamp0to100(x) ==
    LET v == ToNumber(x)
    IN  IF IsFiniteNumber(v) THEN Max(0, Min(100, MathRound(v.n, v.d))) ELSE 50

\* The runway measured against the income instead of the spending
MutMetricsRunwayByIncome(inputs) ==
    LET inc  == NumberOrZero(inputs.monthly_income)
        sp   == NumberOrZero(inputs.monthly_spending)
        sav  == NumberOrZero(inputs.total_savings)
        debt == NumberOrZero(inputs.total_debt)
        invM == NumberOrZero(inputs.monthly_investments)
    IN  [ budget_ratio  |-> IF inc > 0 THEN <<sp, inc>> ELSE PosInf,
          runway_months |-> IF inc > 0 THEN <<sav, inc>>
                            ELSE IF sav > 0 THEN <<99999, 1000>> ELSE <<0, 1>>,
          invest_rate   |-> IF inc > 0 THEN <<invM, inc>> ELSE <<0, 1>>,
          dti           |-> IF inc > 0 THEN <<debt, inc>> ELSE PosInf,
          inc |-> inc, sp |-> sp, sav |-> sav, debt |-> debt ]

\* A slip in the division guard: a ratio of 0 instead of +Infinity
MutMetricsZeroRatio(inputs) ==
    LET inc  == NumberOrZero(inputs.monthly_income)
        sp   == NumberOrZero(inputs.monthly_spending)
        sav  == NumberOrZero(inputs.total_savings)
        debt == NumberOrZero(inputs.total_debt)
        invM == NumberOrZero(inputs.monthly_investments)
    IN  [ budget_ratio  |-> IF inc > 0 THEN <<sp, inc>> ELSE <<0, 1>>,
          runway_months |-> IF sp > 0 THEN <<sav, sp>>
                            ELSE IF sav > 0 THEN <<99999, 1000>> ELSE <<0, 1>>,
          invest_rate   |-> IF inc > 0 THEN <<invM, inc>> ELSE <<0, 1>>,
          dti           |-> IF inc > 0 THEN <<debt, inc>> ELSE <<0, 1>>,
          inc |-> inc, sp |-> sp, sav |-> sav, debt |-> debt ]

computeMetrics(inputs) ==
    LET inc  == NumberOrZero(inputs.monthly_income)
        sp   == NumberOrZero(inputs.monthly_spending)
        sav  == NumberOrZero(inputs.total_savings)
        debt == NumberOrZero(inputs.total_debt)
        invM == NumberOrZero(inputs.monthly_investments)
    IN  [ budget_ratio  |-> IF inc > 0 THEN <<sp, inc>> ELSE PosInf,
          runway_months |-> IF sp > 0 THEN <<sav, sp>>
                            ELSE IF sav > 0 THEN <<99999, 1000>> ELSE <<0, 1>>,
          invest_rate   |-> IF inc > 0 THEN <<invM, inc>> ELSE <<0, 1>>,
          dti           |-> IF inc > 0 THEN <<debt, inc>> ELSE PosInf,
          inc |-> inc, sp |-> sp, sav |-> sav, debt |-> debt ]

\* The conditions of pickState, one per `if`, worst tier first
AtrociousRule(m) ==
    m.inc <= 0 \/ Ge(m.budget_ratio, 150, 100) \/ Lt(m.runway_months, 5, 10)

CriticalRule(m) ==
    Gt(m.budget_ratio, 110, 100) \/ Lt(m.runway_months, 1, 1)
        \/ Gt(m.dti, 120, 100)

StrugglingRule(m) ==
    \/ (Gt(m.budget_ratio, 90, 100) /\ Le(m.budget_ratio, 110, 100))
    \/ (Ge(m.runway_months, 1, 1) /\ Lt(m.runway_months, 2, 1))
    \/ (Gt(m.dti, 60, 100) /\ Le(m.dti, 120, 100))

SurvivingRule(m) ==
    \/ (Gt(m.budget_ratio, 80, 100) /\ Le(m.budget_ratio, 90, 100))
    \/ (Ge(m.runway_months, 2, 1) /\ Lt(m.runway_months, 3, 1))
    \/ (Ge(m.invest_rate, 5, 100) /\ Lt(m.invest_rate, 10, 100))

HealthyRule(m) ==
    /\ Le(m.budget_ratio, 80, 100)
    /\ (Ge(m.runway_months, 3, 1) /\ Le(m.runway_months, 6, 1))
    /\ Ge(m.invest_rate, 10, 100) /\ Le(m.dti, 60, 100)

ThrivingRule(m) ==
    /\ Le(m.budget_ratio, 70, 100)
    /\ (Gt(m.runway_months, 6, 1) /\ Le(m.runway_months, 12, 1))
    /\ Ge(m.invest_rate, 12, 100) /\ Le(m.dti, 40, 100)

FantasticRule(m) ==
    /\ Le(m.budget_ratio, 60, 100) /\ Gt(m.runway_months, 12, 1)
    /\ Ge(m.invest_rate, 15, 100) /\ Le(m.dti, 20, 100)

\* The tiers scanned from best to worst
MutTierRankBestFirst(m) ==
    IF FantasticRule(m) THEN 7
    ELSE IF ThrivingRule(m) THEN 6
    ELSE IF HealthyRule(m) THEN 5
    ELSE IF SurvivingRule(m) THEN 4
    ELSE IF StrugglingRule(m) THEN 3
    ELSE IF CriticalRule(m) THEN 2
    ELSE IF AtrociousRule(m) THEN 1
    ELSE 4

\* pickState, as the index 1..7 of the tier in ALLOWED_STATES (worst to best)
TierRank(m) ==
    IF m.inc <= 0 \/ Ge(m.budget_ratio, 150, 100) \/ Lt(m.runway_months, 5, 10)
    THEN 1
    ELSE IF Gt(m.budget_ratio, 110, 100) \/ Lt(m.runway_months, 1, 1)
            \/ Gt(m.dti, 120, 100)
    THEN 2
    ELSE IF (Gt(m.budget_ratio, 90, 100) /\ Le(m.budget_ratio, 110, 100))
            \/ (Ge(m.runway_months, 1, 1) /\ Lt(m.runway_months, 2, 1))
            \/ (Gt(m.dti, 60, 100) /\ Le(m.dti, 120, 100))
    THEN 3
    ELSE IF (Gt(m.budget_ratio, 80, 100) /\ Le(m.budget_ratio, 90, 100))
            \/ (Ge(m.runway_months, 2, 1) /\ Lt(m.runway_months, 3, 1))
            \/ (Ge(m.invest_rate, 5, 100) /\ Lt(m.invest_rate, 10, 100))
    THEN 4
    ELSE IF Le(m.budget_ratio, 80, 100)
            /\ (Ge(m.runway_months, 3, 1) /\ Le(m.runway_months, 6, 1))
            /\ Ge(m.invest_rate, 10, 100) /\ Le(m.dti, 60, 100)
    THEN 5
    ELSE IF Le(m.budget_ratio, 70, 100)
            /\ (Gt(m.runway_months, 6, 1) /\ Le(m.runway_months, 12, 1))
            /\ Ge(m.invest_rate, 12, 100) /\ Le(m.dti, 40, 100)
    THEN 6
    ELSE IF Le(m.budget_ratio, 60, 100) /\ Gt(m.runway_months, 12, 1)
            /\ Ge(m.invest_rate, 15, 100) /\ Le(m.dti, 20, 100)
    THEN 7
    ELSE 4

\* The final `return 'SURVIVING'` left out: a tuple that matches no condition
\* falls through and the function returns undefined
MutPickStateNoDefault(m) ==
    IF AtrociousRule(m) THEN "ATROCIOUS"
    ELSE IF CriticalRule(m) THEN "CRITICAL"
    ELSE IF StrugglingRule(m) THEN "STRUGGLING"
    ELSE IF SurvivingRule(m) THEN "SURVIVING"
    ELSE IF HealthyRule(m) THEN "HEALTHY"
    ELSE IF ThrivingRule(m) THEN "THRIVING"
    ELSE IF FantasticRule(m) THEN "FANTASTIC"
    ELSE "undefined"

pickState(m) == ALLOWED_STATES[TierRank(m)]

\* A sign slip in the third debt bucket: a ratio up to 1.2 earns 10
MutRawHealthDebtSign(m) ==
    LET budget ==
            (IF Le(m.budget_ratio, 80, 100) THEN 15
             ELSE IF Le(m.budget_ratio, 90, 100) THEN 5
             ELSE IF Le(m.budget_ratio, 110, 100) THEN -10
             ELSE -25)
            + (IF Ge(m.budget_ratio, 150, 100) THEN -15 ELSE 0)
        runway ==
            IF Ge(m.runway_months, 6, 1) THEN 20
            ELSE IF Ge(m.runway_months, 3, 1) THEN 10
            ELSE IF Ge(m.runway_months, 2, 1) THEN 5
            ELSE IF Ge(m.runway_months, 1, 1) THEN -10
            ELSE -25 + (IF Lt(m.runway_months, 5, 10) THEN -10 ELSE 0)
        investing ==
            IF Ge(m.invest_rate, 12, 100) THEN 10
            ELSE IF Ge(m.invest_rate, 10, 100) THEN 5
            ELSE IF Ge(m.invest_rate, 5, 100) THEN 2
            ELSE 0
        debt ==
            IF Le(m.dti, 40, 100) THEN 10
            ELSE IF Le(m.dti, 60, 100) THEN 5
            ELSE IF Le(m.dti, 120, 100) THEN 10
            ELSE -20
    IN  50 + budget + runway + investing + debt

\* The additive score of computeHealth before clamping
RawHealth(m) ==
    LET budget ==
            (IF Le(m.budget_ratio, 80, 100) THEN 15
             ELSE IF Le(m.budget_ratio, 90, 100) THEN 5
             ELSE IF Le(m.budget_ratio, 110, 100) THEN -10
             ELSE -25)
            + (IF Ge(m.budget_ratio, 150, 100) THEN -15 ELSE 0)
        runway ==
            IF Ge(m.runway_months, 6, 1) THEN 20
            ELSE IF Ge(m.runway_months, 3, 1) THEN 10
            ELSE IF Ge(m.runway_months, 2, 1) THEN 5
            ELSE IF Ge(m.runway_months, 1, 1) THEN -10
            ELSE -25 + (IF Lt(m.runway_months, 5, 10) THEN -10 ELSE 0)
        investing ==
            IF Ge(m.invest_rate, 12, 100) THEN 10
            ELSE IF Ge(m.invest_rate, 10, 100) THEN 5
            ELSE IF Ge(m.invest_rate, 5, 100) THEN 2
            ELSE 0
        debt ==
            IF Le(m.dti, 40, 100) THEN 10
            ELSE IF Le(m.dti, 60, 100) THEN 5
            ELSE IF Le(m.dti, 120, 100) THEN -10
            ELSE -20
    IN  50 + budget + runway + investing + debt

\* The final clamp left out
MutHealthUnclamped(m) == RawHealth(m)

computeHealth(m) == serverClamp0to100(Num(RawHealth(m)))

(***************************************************************************)
(* Deterministic scoring, client side (src/public/gemini-service.js)       *)
(***************************************************************************)
ClientStates ==
    <<"FLATLINED", "CRITICAL", "STRUGGLING", "SURVIVING", "HEALTHY", "THRIVING",
      "LEGENDARY">>

prepareInputs(d) ==
    [ monthly_income      |-> Num(NumberOrZero(d.income)),
      monthly_spending    |-> Num(NumberOrZero(d.spending)),
      total_savings       |-> Num(NumberOrZero(d.savings)),
      total_debt          |-> Num(NumberOrZero(d.debt)),
      monthly_investments |-> Num(NumberOrZero(d.monthlyInvestments)),
      investment_balance  |-> Num(NumberOrZero(d.investmentBalance)) ]

\* The clamp to [0, 100] left out
MutClampNoBounds(x) ==
    LET v == ToNumber(x)
    IN  IF ~IsFiniteNumber(v) THEN 50 ELSE MathRound(v.n, v.d)

\* clamp0to100 of the client, applied to a JavaScript value
clamp0to100(x) ==
    LET v == ToNumber(x)
    IN  IF ~IsFiniteNumber(v) THEN 50
        ELSE Max(0, Min(100, MathRound(v.n, v.d)))

localMetrics(inp) ==
    LET inc  == NumberOrZero(inp.monthly_income)
        sp   == NumberOrZero(inp.monthly_spending)
        sav  == NumberOrZero(inp.total_savings)
        debt == NumberOrZero(inp.total_debt)
        invM == NumberOrZero(inp.monthly_investments)
    IN  [ budget_ratio  |-> IF inc > 0 THEN <<sp, inc>> ELSE PosInf,
          runway_months |-> IF sp > 0 THEN <<sav, sp>>
                            ELSE IF sav > 0 THEN <<99999, 1000>> ELSE <<0, 1>>,
          invest_rate   |-> IF inc > 0 THEN <<invM, inc>> ELSE <<0, 1>>,
          dti           |-> IF inc > 0 THEN <<debt, inc>> ELSE PosInf,
          inc |-> inc, sp |-> sp, sav |-> sav, debt |-> debt ]

\* localPickState, as the index 1..7 of the tier in ClientStates
localTierRank(m) ==
    IF m.inc <= 0 \/ Ge(m.budget_ratio, 150, 100) \/ Lt(m.runway_months, 5, 10)
    THEN 1
    ELSE IF Gt(m.budget_ratio, 110, 100) \/ Lt(m.runway_months, 1, 1)
            \/ Gt(m.dti, 120, 100)
    THEN 2
    ELSE IF (Gt(m.budget_ratio, 90, 100) /\ Le(m.budget_ratio, 110, 100))
            \/ (Ge(m.runway_months, 1, 1) /\ Lt(m.runway_months, 2, 1))
            \/ (Gt(m.dti, 60, 100) /\ Le(m.dti, 120, 100))
    THEN 3
    ELSE IF (Gt(m.budget_ratio, 80, 100) /\ Le(m.budget_ratio, 90, 100))
            \/ (Ge(m.runway_months, 2, 1) /\ Lt(m.runway_months, 3, 1))
            \/ (Ge(m.invest_rate, 5, 100) /\ Lt(m.invest_rate, 10, 100))
    THEN 4
    ELSE IF Le(m.budget_ratio, 80, 100)
            /\ (Ge(m.runway_months, 3, 1) /\ Le(m.runway_months, 6, 1))
            /\ Ge(m.invest_rate, 10, 100) /\ Le(m.dti, 60, 100)
    THEN 5
    ELSE IF Le(m.budget_ratio, 70, 100)
            /\ (Gt(m.runway_months, 6, 1) /\ Le(m.runway_months, 12, 1))
            /\ Ge(m.invest_rate, 12, 100) /\ Le(m.dti, 40, 100)
    THEN 6
    ELSE IF Le(m.budget_ratio, 60, 100) /\ Gt(m.runway_months, 12, 1)
            /\ Ge(m.invest_rate, 15, 100) /\ Le(m.dti, 20, 100)
    THEN 7
    ELSE 4

\* The list of tiers read from its end: the best tier where the worst is meant
MutLocalPickStateReversed(m) == ClientStates[8 - localTierRank(m)]

localPickState(m) == ClientStates[localTierRank(m)]

localHealth(m) ==
    LET budget ==
            (IF Le(m.budget_ratio, 80, 100) THEN 15
             ELSE IF Le(m.budget_ratio, 90, 100) THEN 5
             ELSE IF Le(m.budget_ratio, 110, 100) THEN -10
             ELSE -25)
            + (IF Ge(m.budget_ratio, 150, 100) THEN -15 ELSE 0)
        runway ==
            IF Ge(m.runway_months, 6, 1) THEN 20
            ELSE IF Ge(m.runway_months, 3, 1) THEN 10
            ELSE IF Ge(m.runway_months, 2, 1) THEN 5
            ELSE IF Ge(m.runway_months, 1, 1) THEN -10
            ELSE -25 + (IF Lt(m.runway_months, 5, 10) THEN -10 ELSE 0)
        investing ==
            IF Ge(m.invest_rate, 12, 100) THEN 10
            ELSE IF Ge(m.invest_rate, 10, 100) THEN 5
            ELSE IF Ge(m.invest_rate, 5, 100) THEN 2
            ELSE 0
        debt ==
            IF Le(m.dti, 40, 100) THEN 10
            ELSE IF Le(m.dti, 60, 100) THEN 5
            ELSE IF Le(m.dti, 120, 100) THEN -10
            ELSE -20
    IN  clamp0to100(Num(50 + budget + runway + investing + debt))

(***************************************************************************)
(* Text.  A string is a sequence of characters; a character is a one-     *)
(* character TLA+ string, or "U+XXXX" for a code point outside ASCII.      *)
(***************************************************************************)
UpperLetters ==
    {"A", "B", "C", "D", "E", "F", "G", "H", "I", "J", "K", "L", "M", "N", "O",
     "P", "Q", "R", "S", "T", "U", "V", "W", "X", "Y", "Z"}

LowerLetters ==
    {"a", "b", "c", "d", "e", "f", "g", "h", "i", "j", "k", "l", "m", "n", "o",
     "p", "q", "r", "s", "t", "u", "v", "w", "x", "y", "z"}

DigitChars == <<"0", "1", "2", "3", "4", "5", "6", "7", "8", "9">>

\* \w of a JavaScript regular expression
WordChars ==
    UpperLetters \cup LowerLetters \cup {DigitChars[i] : i \in 1..10} \cup {"_"}

\* \s of a JavaScript regular expression (the members used here)
WhiteSpace == {" ", "\t", "\n"}

\* [☀-⛿\u{1F300}-\u{1FAFF}] (the members used here)
EmojiChars ==
    {"U+2600", "U+26A0", "U+26F3", "U+1F3E6", "U+1F44D", "U+1F4A1", "U+1F4B8",
     "U+1F4C8", "U+1F4C9", "U+1F4DD", "U+1F5D3", "U+1F9ED"}

LowerOf ==
    ("A" :> "a") @@ ("B" :> "b") @@ ("C" :> "c") @@ ("D" :> "d") @@ ("E" :> "e")
    @@ ("F" :> "f") @@ ("G" :> "g") @@ ("H" :> "h") @@ ("I" :> "i") @@ ("J" :> "j")
    @@ ("K" :> "k") @@ ("L" :> "l") @@ ("M" :> "m") @@ ("N" :> "n") @@ ("O" :> "o")
    @@ ("P" :> "p") @@ ("Q" :> "q") @@ ("R" :> "r") @@ ("S" :> "s") @@ ("T" :> "t")
    @@ ("U" :> "u") @@ ("V" :> "v") @@ ("W" :> "w") @@ ("X" :> "x") @@ ("Y" :> "y")
    @@ ("Z" :> "z")

\* String.prototype.toLowerCase, one character / a whole string
LowerChar(c) == IF c \in UpperLetters THEN LowerOf[c] ELSE c

toLowerCase(t) == [i \in 1..Len(t) |-> LowerChar(t[i])]

Last(t) == t[Len(t)]

\* The element of a one-element set.  TheValue({F(t) : t \in {e}}) is F(e) with
\* e evaluated once and t naming its value, like `const t = e`.
TheValue(S) == CHOOSE x \in S : TRUE

\* The concatenation of pieces[lo], ..., pieces[hi]
RECURSIVE Flatten(_, _, _)
Flatten(pieces, lo, hi) ==
    IF lo > hi THEN <<>>
    ELSE IF lo = hi THEN pieces[lo]
    ELSE TheValue({Flatten(pieces, lo, mid) \o Flatten(pieces, mid + 1, hi) :
                       mid \in {(lo + hi) \div 2}})

AllSpace(t) == \A i \in 1..Len(t) : t[i] \in WhiteSpace

FirstNonSpace(t) ==
    CHOOSE i \in 1..Len(t) :
        t[i] \notin WhiteSpace /\ \A j \in 1..(i - 1) : t[j] \in WhiteSpace

LastNonSpace(t) ==
    CHOOSE i \in 1..Len(t) :
        t[i] \notin WhiteSpace /\ \A j \in (i + 1)..Len(t) : t[j] \in WhiteSpace

\* String.prototype.trim
Trim(s) ==
    TheValue({IF AllSpace(t) THEN <<>>
              ELSE SubSeq(t, FirstNonSpace(t), LastNonSpace(t)) : t \in {s}})

\* String(n) of an integer
RECURSIVE NatDigits(_)
NatDigits(n) ==
    IF n < 10 THEN <<DigitChars[n + 1]>>
    ELSE Append(NatDigits(n \div 10), DigitChars[(n % 10) + 1])

IntText(n) == IF n < 0 THEN <<"-">> \o NatDigits(-n) ELSE NatDigits(n)

\* (n/d).toFixed(1) for d > 0, n >= 0
toFixed1(r) ==
    LET k == MathRound(10 * r[1], r[2])
    IN  NatDigits(k \div 10) \o <<".">> \o NatDigits(k % 10)

\* /pattern/i.test(t) for a literal pattern given in lower case
ContainsCI(t, pat) ==
    \E i \in 1..(Len(t) - Len(pat) + 1) :
        \A j \in 1..Len(pat) : LowerChar(t[i + j - 1]) = pat[j]

\* t.replace(/c/g, by) for a single character c
ReplaceChar(s, c, by) ==
    TheValue({Flatten([i \in 1..Len(t) |-> IF t[i] = c THEN by ELSE <<t[i]>>],
                      1, Len(t)) : t \in {s}})

\* t.replace(/[S]/g, '') for a character class S
RemoveChars(t, S) == SelectSeq(t, LAMBDA c : c \notin S)

\* \b before position i and after position i of t
BoundaryBefore(t, i) == i = 1 \/ t[i - 1] \notin WordChars

BoundaryAfter(t, i) == i = Len(t) \/ t[i + 1] \notin WordChars

\* /\bmo/i matches at position i
MoAt(t, i) ==
    /\ i + 1 <= Len(t)
    /\ LowerChar(t[i]) = "m" /\ LowerChar(t[i + 1]) = "o"
    /\ BoundaryBefore(t, i)

\* /\bmo\b/i and /\bmo\./i match at position i
MoWordAt(t, i) == MoAt(t, i) /\ BoundaryAfter(t, i + 1)

MoDotAt(t, i) == MoAt(t, i) /\ i + 2 <= Len(t) /\ t[i + 2] = "."

Months == <<"m", "o", "n", "t", "h", "s">>

Percent == <<" ", "p", "e", "r", "c", "e", "n", "t">>

\* t.replace(/\bmo\b/gi, 'months'): two matches never overlap
ReplaceMoWord(s) ==
    TheValue({Flatten([i \in 1..Len(t) |->
                          IF MoWordAt(t, i) THEN Months
                          ELSE IF i > 1 /\ MoWordAt(t, i - 1) THEN <<>>
                          ELSE <<t[i]>>], 1, Len(t)) : t \in {s}})

\* t.replace(/\bmo\./gi, 'months')
ReplaceMoDot(s) ==
    TheValue({Flatten([i \in 1..Len(t) |->
                          IF MoDotAt(t, i) THEN Months
                          ELSE IF \/ i > 1 /\ MoDotAt(t, i - 1)
                                  \/ i > 2 /\ MoDotAt(t, i - 2)
                          THEN <<>>
                          ELSE <<t[i]>>], 1, Len(t)) : t \in {s}})

\* t.replace(/\s+/g, ' ')
CollapseSpaces(s) ==
    TheValue({Flatten([i \in 1..Len(t) |->
                          IF t[i] \notin WhiteSpace THEN <<t[i]>>
                          ELSE IF i > 1 /\ t[i - 1] \in WhiteSpace THEN <<>>
                          ELSE <<" ">>], 1, Len(t)) : t \in {s}})

SentenceEnd == {".", "!", "?"}

\* The test for an ending left out: a period is always added
MutAlwaysPeriod(s) == IF s # <<>> THEN Append(s, ".") ELSE s

\* if (!/[.!?]$/.test(t) && t.length) t += '.'
EndSentence(s) ==
    TheValue({IF t # <<>> /\ Last(t) \notin SentenceEnd THEN Append(t, ".")
              ELSE t : t \in {s}})

sanitizeLine(s) ==
    EndSentence(Trim(CollapseSpaces(ReplaceMoDot(ReplaceMoWord(
        ReplaceChar(RemoveChars(RemoveChars(s, EmojiChars), {"(", ")", ":"}),
                    "%", Percent))))))

\* The index at which the last whitespace run of t starts, 0 when t has none:
\* what /\s+\S*$/ matches starts there.
LastSpaceRun(t) ==
    IF \A i \in 1..Len(t) : t[i] \notin WhiteSpace THEN 0
    ELSE CHOOSE i \in 1..Len(t) :
            /\ t[i] \in WhiteSpace
            /\ i = 1 \/ t[i - 1] \notin WhiteSpace
            /\ \A j \in (i + 1)..Len(t) :
                  t[j] \in WhiteSpace => t[j - 1] \in WhiteSpace

\* slice.replace(/\s+\S*$/, '')
CutAt(slice, k) == IF k = 0 THEN slice ELSE SubSeq(slice, 1, k - 1)

CutAtWord(s) == TheValue({CutAt(slice, LastSpaceRun(slice)) : slice \in {s}})

\* cut.replace(/[.!?]+$/, '')
StripSentenceEnd(s) ==
    TheValue({IF \A i \in 1..Len(t) : t[i] \in SentenceEnd THEN <<>>
              ELSE SubSeq(t, 1, CHOOSE i \in 1..Len(t) :
                                  /\ t[i] \notin SentenceEnd
                                  /\ \A j \in (i + 1)..Len(t) :
                                        t[j] \in SentenceEnd) : t \in {s}})

\* shorten of a string already trimmed
Shortened(t, max) ==
    IF Len(t) <= max THEN t
    ELSE Append(StripSentenceEnd(CutAtWord(SubSeq(t, 1, max))), ".")

shorten(s, max) == TheValue({Shortened(t, max) : t \in {Trim(s)}})

RECURSIVE Dedup(_, _, _)
Dedup(list, i, seen) ==
    IF i > Len(list) THEN <<>>
    ELSE IF toLowerCase(list[i]) \in seen THEN Dedup(list, i + 1, seen)
         ELSE <<list[i]>> \o Dedup(list, i + 1, seen \cup {toLowerCase(list[i])})

\* Only a repeat of the entry just before it is dropped
MutUniqueListAdjacent(list) ==
    SelectSeq([i \in 1..Len(list) |->
                  IF i > 1 /\ toLowerCase(list[i]) = toLowerCase(list[i - 1])
                  THEN <<>> ELSE list[i]],
              LAMBDA a : a # <<>>)

uniqueList(list) == TheValue({Dedup(l, 1, {}) : l \in {list}})

(***************************************************************************)
(* JSON objects.  An object is a function from its member names to their   *)
(* values; a member that is absent is not in its DOMAIN.                   *)
(***************************************************************************)
EmptyObj == <<>>

Has(o, f) == f \in DOMAIN o

\* String(x).toUpperCase() for the state names that occur; String(undefined)
\* is "undefined".
UpperName ==
    ("healthy" :> "HEALTHY") @@ ("thriving" :> "THRIVING")
    @@ ("undefined" :> "UNDEFINED")

toUpperCaseName(s) == IF s \in DOMAIN UpperName THEN UpperName[s] ELSE s

\* The value of obj.state as a string: String(obj.state)
StateString(o) == IF Has(o, "state") THEN o.state ELSE "undefined"

ClientAllowed ==
    {"FLATLINED", "CRITICAL", "STRUGGLING", "SURVIVING", "HEALTHY", "THRIVING",
     "LEGENDARY"}

\* The state check left out of the shape test
MutLooksNormalizedNoState(obj) ==
    /\ Has(obj, "health") /\ TypeofNumber(obj.health)
    /\ (Has(obj, "message") \/ Has(obj, "headline"))

looksNormalized(obj) ==
    /\ Has(obj, "health") /\ TypeofNumber(obj.health)
    /\ (Has(obj, "message") \/ Has(obj, "headline"))
    /\ toUpperCaseName(StateString(obj)) \in ClientAllowed

\* toAllowedState(obj.state): String(s || '').toUpperCase()
toAllowedState(o) ==
    LET up == IF Has(o, "state") THEN toUpperCaseName(o.state) ELSE ""
    IN  IF up \in ClientAllowed THEN up ELSE "SURVIVING"

HealthValue(o) == IF Has(o, "health") THEN o.health ELSE Undef

(***************************************************************************)
(* Legacy candidate text.  The text of a candidate is a sequence of        *)
(* tokens: "lb" and "rb" are the braces, "members" the text of the members *)
(* of one object (with the object they spell), "fence" a ``` or ```json    *)
(* marker, "ws" white space, "prose" any other character.  "sopen" is the  *)
(* text of the members of one object up to and into the string value of    *)
(* the last one, "sclose" the rest of that string and its closing quote:   *)
(* the tokens between the two are characters of the string.                *)
(***************************************************************************)
LB == [t |-> "lb"]

RB == [t |-> "rb"]

WS == [t |-> "ws"]

Fence == [t |-> "fence"]

Prose == [t |-> "prose"]

Members(o) == [t |-> "members", obj |-> o]

SOpen(o) == [t |-> "sopen", obj |-> o]

SClose == [t |-> "sclose"]

NoJson == [ok |-> FALSE, value |-> EmptyObj]

RECURSIVE DepthAt(_, _)
\* The brace depth after the first i tokens
DepthAt(toks, i) ==
    IF i = 0 THEN 0
    ELSE DepthAt(toks, i - 1)
         + (IF toks[i].t = "lb" THEN 1 ELSE IF toks[i].t = "rb" THEN -1 ELSE 0)

RECURSIVE MergeMembers(_, _)
\* The members spelled at depth 1, a later one overriding an earlier one
MergeMembers(toks, i) ==
    IF i = 0 THEN EmptyObj
    ELSE IF toks[i].t = "members" /\ DepthAt(toks, i) = 1
         THEN toks[i].obj @@ MergeMembers(toks, i - 1)
         ELSE MergeMembers(toks, i - 1)

\* The tokens of a text that are not white space spell one object: one
\* balanced brace group, every nested group after a member name
ParseTokens(toks) ==
    IF /\ Len(toks) >= 2
       /\ toks[1].t = "lb" /\ toks[Len(toks)].t = "rb"
       /\ \A i \in 1..Len(toks) : toks[i].t \in {"lb", "rb", "members"}
       /\ \A i \in 1..(Len(toks) - 1) : DepthAt(toks, i) > 0
       /\ DepthAt(toks, Len(toks)) = 0
       /\ \A i \in 2..Len(toks) : toks[i].t = "lb" => toks[i - 1].t = "members"
    THEN [ok |-> TRUE, value |-> MergeMembers(toks, Len(toks))]
    ELSE NoJson

RECURSIVE StringsRead(_, _, _)
\* What the parser reads the tokens from i on as, once string literals are
\* taken whole: the characters inside a string are no tokens of their own,
\* a quote out of place leaves a token no object holds
StringsRead(toks, i, inString) ==
    IF i > Len(toks) THEN (IF inString THEN <<Prose>> ELSE <<>>)
    ELSE IF inString
         THEN IF toks[i].t = "sclose" THEN StringsRead(toks, i + 1, FALSE)
              ELSE IF toks[i].t \in {"sopen", "members"}
                   THEN <<Prose>> \o StringsRead(toks, i + 1, FALSE)
              ELSE StringsRead(toks, i + 1, TRUE)
         ELSE IF toks[i].t = "sopen"
              THEN <<Members(toks[i].obj)>> \o StringsRead(toks, i + 1, TRUE)
              ELSE IF toks[i].t = "sclose"
                   THEN <<Prose>> \o StringsRead(toks, i + 1, FALSE)
              ELSE <<toks[i]>> \o StringsRead(toks, i + 1, FALSE)

\* JSON.parse(text) in a try block: [ok |-> FALSE] stands for the exception
JsonParse(text) ==
    TheValue({ParseTokens(toks) :
                 toks \in {StringsRead(SelectSeq(text, LAMBDA k : k.t # "ws"),
                                       1, FALSE)}})

\* String.prototype.trim on a token text
TrimWs(s) ==
    TheValue({IF \A i \in 1..Len(text) : text[i].t = "ws" THEN <<>>
              ELSE SubSeq(text,
                          CHOOSE i \in 1..Len(text) :
                              /\ text[i].t # "ws"
                              /\ \A j \in 1..(i - 1) : text[j].t = "ws",
                          CHOOSE i \in 1..Len(text) :
                              /\ text[i].t # "ws"
                              /\ \A j \in (i + 1)..Len(text) : text[j].t = "ws") :
              text \in {s}})

\* text.indexOf('{', from), 0 when there is none
RECURSIVE IndexOfBrace(_, _)
IndexOfBrace(text, from) ==
    IF from > Len(text) THEN 0
    ELSE IF text[from].t = "lb" THEN from ELSE IndexOfBrace(text, from + 1)

BraceStep(tok) == IF tok.t = "lb" THEN 1 ELSE IF tok.t = "rb" THEN -1 ELSE 0

\* The inner for loop: the index at which the depth first returns to 0 when
\* scanning from start, 0 when it never does
RECURSIVE CloseOf(_, _, _)
CloseOf(text, i, depth) ==
    IF i > Len(text) THEN 0
    ELSE IF text[i].t = "rb" /\ depth + BraceStep(text[i]) = 0 THEN i
    ELSE CloseOf(text, i + 1, depth + BraceStep(text[i]))

\* a when it parsed, else b
FirstOk(a, b) == TheValue({IF r.ok THEN r ELSE b : r \in {a}})

\* text.slice(start, close + 1) parsed, when the group closes at all
ParseGroup(text, start, close) ==
    IF close = 0 THEN NoJson ELSE JsonParse(SubSeq(text, start, close))

\* The while loop over the start positions
RECURSIVE ScanFrom(_, _)
ScanFrom(text, start) ==
    IF start = 0 THEN NoJson
    ELSE FirstOk(ParseGroup(text, start, CloseOf(text, start, 0)),
                 ScanFrom(text, IndexOfBrace(text, start + 1)))

\* extractJson after the fences are removed and the text is trimmed
ExtractTrimmed(t) == FirstOk(JsonParse(t), ScanFrom(t, IndexOfBrace(t, 1)))

extractJson(text) ==
    IF text = <<>> THEN NoJson
    ELSE TheValue({ExtractTrimmed(t) :
                      t \in {TrimWs(SelectSeq(text, LAMBDA k : k.t # "fence"))}})

RECURSIVE JoinParts(_)
\* parts.map(p => p?.text || '').join('')
JoinParts(parts) ==
    IF parts = <<>> THEN <<>>
    ELSE (IF Has(Head(parts), "text") THEN Head(parts).text ELSE <<>>)
         \o JoinParts(Tail(parts))

\* The text of payload.candidates[0]
CandidateText(cand) ==
    IF Has(cand, "content") /\ Has(cand.content, "parts")
    THEN JoinParts(cand.content.parts)
    ELSE IF Has(cand, "text") THEN cand.text
    ELSE IF Has(cand, "output") THEN cand.output
    ELSE <<>>

NotParsed == [ok |-> FALSE, value |-> EmptyObj]

HasCandidate(payload) ==
    Has(payload, "candidates") /\ Len(payload.candidates) >= 1

\* The object extracted, with its state, health and advice coerced
Coerced(json) ==
    IF ~json.ok THEN NotParsed
    ELSE [ ok |-> TRUE,
           value |->
               [ state  |-> toAllowedState(json.value),
                 health |-> Num(clamp0to100(HealthValue(json.value))),
                 advice |-> IF Has(json.value, "advice")
                            THEN json.value.advice ELSE <<>> ]
               @@ json.value ]

\* const cand = payload?.candidates?.[0]; ...; const json = extractJson(text)
ExtractFrom(payload) ==
    TheValue({extractJson(text) :
                 text \in {CandidateText(payload.candidates[1])}})

\* parseGeminiCandidates: [ok |-> FALSE] stands for null
parseGeminiCandidates(payload) ==
    IF ~HasCandidate(payload) THEN NotParsed
    ELSE TheValue({Coerced(json) : json \in {ExtractFrom(payload)}})

(***************************************************************************)
(* Post-processing and the local fallback                                  *)
(***************************************************************************)
AnalyzingPattern == <<"a", "n", "a", "l", "y", "z", "i", "n", "g">>

AllSet == <<"A", "l", "l", " ", "s", "e", "t", ".">>

Bullet == <<"U+2022", " ">>

RECURSIVE JoinBullets(_)
\* advice.map(b => `• ${b}`).join('\n')
JoinBullets(advice) ==
    IF advice = <<>> THEN <<>>
    ELSE IF Len(advice) = 1 THEN Bullet \o advice[1]
    ELSE Bullet \o Head(advice) \o <<"\n">> \o JoinBullets(Tail(advice))

\* obj.headline || obj.message || ''
HeadlineSource(obj) ==
    IF Has(obj, "headline") /\ obj.headline # <<>> THEN obj.headline
    ELSE IF Has(obj, "message") /\ obj.message # <<>> THEN obj.message
    ELSE <<>>

\* The headline and the advice list of finalizeForUI
FinalHeadline(obj) == sanitizeLine(shorten(HeadlineSource(obj), 96))

\* One line too few kept: slice(0, 2)
MutFirstTwo(list) == TheValue({SubSeq(l, 1, Min(2, Len(l))) : l \in {list}})

FirstThree(list) == TheValue({SubSeq(l, 1, Min(3, Len(l))) : l \in {list}})

CleanedAdvice(raw) == [i \in 1..Len(raw) |-> sanitizeLine(shorten(raw[i], 96))]

FinalAdvice(obj) ==
    FirstThree(uniqueList(SelectSeq(
        CleanedAdvice(IF Has(obj, "advice") THEN obj.advice ELSE <<>>),
        LAMBDA a : a # <<>>)))

\* The text on screen preferred to the new headline
MutBaseKeepsPrevious(headline, currentText) ==
    IF currentText # <<>> /\ ~ContainsCI(currentText, AnalyzingPattern)
    THEN currentText
    ELSE headline

\* headline || (isAnalyzing ? '' : currentText)
BaseRaw(headline, currentText) ==
    IF headline # <<>> THEN headline
    ELSE IF ContainsCI(currentText, AnalyzingPattern) THEN <<>>
    ELSE currentText

\* bullets ? (base ? `${base}\n${bullets}` : bullets) : (base || '')
Compose(base, bullets) ==
    IF bullets # <<>>
    THEN (IF base # <<>> THEN base \o <<"\n">> \o bullets ELSE bullets)
    ELSE base

\* The message of finalizeForUI, before its default
FinalMessage(headline, advice, petText) ==
    TheValue({Compose(base, bullets) :
                 base \in {TheValue({sanitizeLine(shorten(BaseRaw(headline, t), 96)) :
                                        t \in {Trim(petText)}})},
                 bullets \in {JoinBullets(advice)}})

\* The default of the message left out
MutNoDefault(message) == message

\* message || 'All set.'
OrAllSet(message) ==
    TheValue({IF m # <<>> THEN m ELSE AllSet : m \in {message}})

FinalRecord(obj, headline, advice, message) ==
    [ state    |-> toAllowedState(obj),
      health   |-> clamp0to100(HealthValue(obj)),
      message  |-> message,
      headline |-> headline,
      advice   |-> advice ]

WithMessage(obj, headline, advice, petText) ==
    FinalRecord(obj, headline, advice,
                OrAllSet(FinalMessage(headline, advice, petText)))

Finalize(o, petText) ==
    TheValue({WithMessage(o, headline, advice, petText) :
                 headline \in {FinalHeadline(o)}, advice \in {FinalAdvice(o)}})

finalizeForUI(obj, petText) == TheValue({Finalize(o, petText) : o \in {obj}})

LocalHeadline(state) ==
    CASE state = "LEGENDARY"  -> <<"L", "e", "g", "e", "n", "d", " ", "e", "n",
                                   "e", "r", "g", "y", ".", " ", "K", "e", "e",
                                   "p", " ", "g", "o", "i", "n", "g", ".">>
      [] state = "THRIVING"   -> <<"S", "t", "r", "o", "n", "g", " ", "p", "a",
                                   "t", "h", ".", " ", "S", "t", "a", "y", " ",
                                   "s", "t", "e", "a", "d", "y", ".">>
      [] state = "HEALTHY"    -> <<"S", "o", "l", "i", "d", " ", "f", "o", "o",
                                   "t", "i", "n", "g", ".", " ", "N", "i", "c",
                                   "e", " ", "w", "o", "r", "k", ".">>
      [] state = "SURVIVING"  -> <<"W", "e", " ", "a", "r", "e", " ", "o", "k",
                                   "a", "y", ".", " ", "L", "e", "t", "U+2019",
                                   "s", " ", "t", "i", "g", "h", "t", "e", "n",
                                   " ", "a", " ", "b", "i", "t", ".">>
      [] state = "STRUGGLING" -> <<"P", "r", "e", "s", "s", "u", "r", "e", " ",
                                   "i", "s", " ", "b", "u", "i", "l", "d", "i",
                                   "n", "g", ".", " ", "Q", "u", "i", "c", "k",
                                   " ", "w", "i", "n", "s", " ", "h", "e", "l",
                                   "p", ".">>
      [] state = "CRITICAL"   -> <<"T", "h", "i", "s", " ", "i", "s", " ", "c",
                                   "r", "i", "t", "i", "c", "a", "l", ".", " ",
                                   "P", "r", "o", "t", "e", "c", "t", " ", "c",
                                   "a", "s", "h", " ", "n", "o", "w", ".">>
      [] OTHER                -> <<"F", "l", "a", "t", "l", "i", "n", "e", "d",
                                   ".", " ", "E", "m", "e", "r", "g", "e", "n",
                                   "c", "y", " ", "m", "o", "d", "e", ".">>

\* pct: `${Math.round(x*100)} percent`, or 'infinite'
Pct(r) ==
    IF IsFiniteRatio(r) THEN IntText(MathRound(100 * r[1], r[2])) \o <<" ",
                                                                       "p",
                                                                       "e",
                                                                       "r",
                                                                       "c",
                                                                       "e",
                                                                       "n",
                                                                       "t">>
    ELSE <<"i", "n", "f", "i", "n", "i", "t", "e">>

\* Math.ceil((m.budget_ratio - 0.9) * 100) as text; Infinity for an infinite ratio
TrimPercent(r) ==
    IF IsFiniteRatio(r) THEN IntText(MathCeil(100 * r[1] - 90 * r[2], r[2]))
    ELSE <<"I", "n", "f", "i", "n", "i", "t", "y">>

\* Math.max(1, Math.ceil(((m.inc || 0) * 0.10) / 4))
WeeklyTransfer(m) == Max(1, MathCeil(m.inc, 40))

LocalAdvice(m) ==
    << IF Le(m.budget_ratio, 8, 10)
       THEN <<"Y", "o", "u", "r", " ", "s", "p", "e", "n", "d", "i", "n", "g",
              " ", "i", "s", " ">>
            \o Pct(m.budget_ratio)
            \o <<" ", "w", "h", "i", "c", "h", " ", "i", "s", " ", "u", "n",
                 "d", "e", "r", " ", "t", "h", "e", " ", "t", "a", "r", "g",
                 "e", "t", ".">>
       ELSE IF Ge(m.runway_months, 3, 1)
       THEN <<"Y", "o", "u", " ", "h", "a", "v", "e", " ">> \o toFixed1(m.runway_months)
            \o <<" ", "m", "o", "n", "t", "h", "s", " ", "o", "f", " ", "r",
                 "u", "n", "w", "a", "y", " ", "w", "h", "i", "c", "h", " ",
                 "i", "s", " ", "a", " ", "g", "o", "o", "d", " ", "b", "a",
                 "s", "e", ".">>
       ELSE <<"Y", "o", "u", " ", "p", "i", "c", "k", "e", "d", " ", "a", " ",
              "c", "l", "e", "a", "r", " ", "p", "l", "a", "c", "e", " ", "t",
              "o", " ", "s", "t", "a", "r", "t", " ", "a", "n", "d", " ", "t",
              "h", "a", "t", " ", "i", "s", " ", "g", "o", "o", "d", ".">>,
       IF Gt(m.budget_ratio, 9, 10)
       THEN <<"T", "r", "i", "m", " ", "s", "p", "e", "n", "d", "i", "n", "g",
              " ", "b", "y", " ", "a", "b", "o", "u", "t", " ">>
            \o TrimPercent(m.budget_ratio)
            \o <<" ", "p", "e", "r", "c", "e", "n", "t", " ", "t", "o", " ",
                 "r", "e", "a", "c", "h", " ", "n", "i", "n", "e", "t", "y",
                 " ", "p", "e", "r", "c", "e", "n", "t", ".">>
       ELSE IF Lt(m.invest_rate, 10, 100)
       THEN <<"R", "a", "i", "s", "e", " ", "i", "n", "v", "e", "s", "t", "i",
              "n", "g", " ", "t", "o", " ", "t", "e", "n", " ", "p", "e", "r",
              "c", "e", "n", "t", " ", "y", "o", "u", " ", "a", "r", "e", " ",
              "a", "t", " ">>
            \o Pct(m.invest_rate) \o <<" ", "n", "o", "w", ".">>
       ELSE <<"C", "h", "o", "o", "s", "e", " ", "o", "n", "e", " ", "c", "a",
              "t", "e", "g", "o", "r", "y", " ", "t", "o", " ", "c", "u", "t",
              " ", "t", "h", "i", "s", " ", "w", "e", "e", "k", " ", "a", "n",
              "d", " ", "s", "t", "i", "c", "k", " ", "t", "o", " ", "i", "t",
              ".">>,
       IF Lt(m.invest_rate, 10, 100)
       THEN <<"S", "e", "t", " ", "a", "n", " ", "a", "u", "t", "o", "m", "a",
              "t", "i", "c", " ", "t", "r", "a", "n", "s", "f", "e", "r", " ",
              "o", "f", " ">>
            \o IntText(WeeklyTransfer(m)) \o <<" ", "e", "a", "c", "h", " ",
                                               "w", "e", "e", "k", ".">>
       ELSE <<"T", "r", "a", "c", "k", " ", "s", "p", "e", "n", "d", "i", "n",
              "g", " ", "d", "a", "i", "l", "y", " ", "a", "n", "d", " ", "k",
              "e", "e", "p", " ", "t", "h", "e", " ", "r", "a", "t", "i", "o",
              " ", "a", "t", " ", "o", "r", " ", "b", "e", "l", "o", "w", " ",
              "e", "i", "g", "h", "t", "y", " ", "p", "e", "r", "c", "e", "n",
              "t", ".">>
    >>

\* .map(sanitizeLine).map(s => shorten(s))
CleanLocal(a) ==
    TheValue({[i \in 1..Len(l) |-> shorten(sanitizeLine(l[i]), 96)] : l \in {a}})

\* The tier and the score of the result fixed at the middle
MutLocalResultFixedTier(m) ==
    [ state    |-> "SURVIVING",
      health   |-> Num(50),
      headline |-> sanitizeLine(LocalHeadline("SURVIVING")),
      advice   |-> CleanLocal(LocalAdvice(m)),
      message  |-> <<>> ]

\* The result object of computeLocalFallback for the metrics m
LocalResult(m) ==
    [ state    |-> localPickState(m),
      health   |-> Num(localHealth(m)),
      headline |-> sanitizeLine(LocalHeadline(localPickState(m))),
      advice   |-> CleanLocal(LocalAdvice(m)),
      message  |-> <<>> ]

computeLocalFallback(inputs) ==
    TheValue({LocalResult(m) : m \in {localMetrics(inputs)}})

(***************************************************************************)
(* The advice fallback of the server (src/server.js, buildLocalAdvice)     *)
(***************************************************************************)
\* pct of buildLocalAdvice: `${Math.round(x*100)}%`, or the infinity sign
ServerPct(r) ==
    IF IsFiniteRatio(r) THEN IntText(MathRound(100 * r[1], r[2])) \o <<"%">>
    ELSE <<"U+221E">>

\* The three advice lines of buildLocalAdvice.  The digits of a number are
\* those of exact arithmetic; where a double would round another way
\* (Math.ceil of a product a hair above an integer) the line differs in its
\* digits only.
ServerAdviceOne(m) ==
    IF Le(m.budget_ratio, 8, 10)
    THEN <<"G", "o", "o", "d", ":", " ", "S", "p", "e", "n", "d", " ", "r",
           "a", "t", "i", "o", " ">>
         \o ServerPct(m.budget_ratio)
         \o <<" ", "(", "U+2264", "8", "0", "%", ")", ".", " ", "U+1F44D">>
    ELSE IF Ge(m.runway_months, 3, 1)
    THEN <<"G", "o", "o", "d", ":", " ", "R", "u", "n", "w", "a", "y", " ">>
         \o toFixed1(m.runway_months)
         \o <<" ", "m", "o", " ", "(", "U+2265", "3", ")", ".", " ", "U+1F4A1">>
    ELSE IF Ge(m.invest_rate, 10, 100)
    THEN <<"G", "o", "o", "d", ":", " ", "I", "n", "v", "e", "s", "t", "i",
           "n", "g", " ">>
         \o ServerPct(m.invest_rate)
         \o <<" ", "(", "U+2265", "1", "0", "%", ")", ".", " ", "U+1F4C8">>
    ELSE IF Le(m.dti, 60, 100)
    THEN <<"G", "o", "o", "d", ":", " ", "D", "T", "I", " ">>
         \o ServerPct(m.dti)
         \o <<" ", "(", "U+2264", "6", "0", "%", ")", ".", " ", "U+2705">>
    ELSE <<"G", "o", "o", "d", ":", " ", "C", "l", "e", "a", "r", " ", "s",
           "t", "a", "r", "t", "i", "n", "g", " ", "p", "o", "i", "n", "t",
           ".", " ", "U+2B50">>

ServerAdviceTwo(m) ==
    IF Gt(m.budget_ratio, 9, 10)
    THEN <<"F", "i", "x", ":", " ", "T", "r", "i", "m", " ", "s", "p", "e",
           "n", "d", " ", "~">>
         \o TrimPercent(m.budget_ratio)
         \o <<"%", " ", "t", "o", " ", "r", "e", "a", "c", "h", " ", "U+2264",
              "9", "0", "%", ".", " ", "U+2702", "U+FE0F">>
    ELSE IF Lt(m.runway_months, 2, 1)
    THEN <<"F", "i", "x", ":", " ", "B", "o", "o", "s", "t", " ", "s", "a",
           "v", "i", "n", "g", "s", " ", "t", "o", " ", "2", " ", "m", "o",
           " ", "(", "n", "o", "w", " ">>
         \o toFixed1(m.runway_months)
         \o <<")", ".", " ", "U+1F3E6">>
    ELSE IF Lt(m.invest_rate, 10, 100)
    THEN <<"F", "i", "x", ":", " ", "R", "a", "i", "s", "e", " ", "i", "n",
           "v", "e", "s", "t", " ", "t", "o", " ", "1", "0", "%", " ", "(",
           "n", "o", "w", " ">>
         \o ServerPct(m.invest_rate)
         \o <<")", ".", " ", "U+1F4B8">>
    ELSE IF Gt(m.dti, 12, 10)
    THEN <<"F", "i", "x", ":", " ", "P", "a", "y", " ", "d", "o", "w", "n",
           " ", "d", "e", "b", "t", ";", " ", "D", "T", "I", " ">>
         \o ServerPct(m.dti)
         \o <<" ", ">", " ", "1", "2", "0", "%", ".", " ", "U+1F4C9">>
    ELSE <<"F", "i", "x", ":", " ", "P", "i", "c", "k", " ", "o", "n", "e",
           " ", "c", "a", "t", "e", "g", "o", "r", "y", " ", "t", "o", " ",
           "c", "u", "t", ".", " ", "U+1F4DD">>

ServerAdviceThree(m) ==
    IF Lt(m.invest_rate, 10, 100)
    THEN <<"G", "o", "a", "l", " ", "(", "n", "e", "x", "t", " ", "w", "e",
           "e", "k", ")", ":", " ", "a", "u", "t", "o", "-", "m", "o", "v",
           "e", " ">>
         \o IntText(WeeklyTransfer(m))
         \o <<"/", "w", "k", " ", "t", "o", " ", "i", "n", "v", "e", "s", "t",
              "i", "n", "g", ".", " ", "U+1F5D3", "U+FE0F">>
    ELSE IF Lt(m.runway_months, 3, 1)
    THEN <<"G", "o", "a", "l", " ", "(", "n", "e", "x", "t", " ", "w", "e",
           "e", "k", ")", ":", " ", "s", "a", "v", "e", " ">>
         \o IntText(MathCeil(m.sp, 10))
         \o <<" ", "t", "o", " ", "b", "u", "i", "l", "d", " ", "r", "u", "n",
              "w", "a", "y", ".", " ", "U+26F3">>
    ELSE <<"G", "o", "a", "l", " ", "(", "n", "e", "x", "t", " ", "w", "e",
           "e", "k", ")", ":", " ", "t", "r", "a", "c", "k", " ", "s", "p",
           "e", "n", "d", " ", "d", "a", "i", "l", "y", ";", " ", "k", "e",
           "e", "p", " ", "U+2264", "8", "0", "%", ".", " ", "U+1F9ED">>

\* buildLocalAdvice(m, state).advice
buildLocalAdvice(m) ==
    <<ServerAdviceOne(m), ServerAdviceTwo(m), ServerAdviceThree(m)>>

(***************************************************************************)
(* The scoring pipeline as a state machine.  Each step evaluates the       *)
(* pipeline once, on an input record or on a metrics tuple, and records    *)
(* what it returned.                                                       *)
(***************************************************************************)
Incomes == {Undef, Str, Num(0), Num(-500), Num(1000), Num(5000), NumStr(5000)}

Spendings == {Num(0), Num(-500), Num(500), Num(850), Num(3000), Num(8000)}

Savings == {Undef, Num(400), Num(3000), Num(10000), Num(30000), Num(70000)}

Debts == {Num(0), Num(2000), Num(7000)}

Investments == {Num(0), Num(300), Num(500), Num(800)}

\* The inputs object of a POST /analyze body
RouteInputs ==
    [ monthly_income : Incomes, monthly_spending : Spendings,
      total_savings : Savings, total_debt : Debts,
      monthly_investments : Investments ]

\* The form record handed to analyzeFinancialData
FormData ==
    [ income : Incomes, spending : Spendings, savings : Savings, debt : Debts,
      monthlyInvestments : Investments, investmentBalance : {Num(0)} ]

BudgetRatios ==
    {<<-1000000, 1>>, <<0, 100>>, <<60, 100>>, <<70, 100>>, <<80, 100>>,
     <<85, 100>>, <<90, 100>>, <<110, 100>>, <<120, 100>>, <<150, 100>>,
     <<1000000, 1>>, PosInf}

RunwayMonths ==
    {<<-1000000, 1>>, <<0, 10>>, <<4, 10>>, <<5, 10>>, <<1, 1>>, <<2, 1>>,
     <<3, 1>>, <<6, 1>>, <<12, 1>>, <<99999, 1000>>, <<1000000, 1>>, PosInf}

InvestRates ==
    {<<-1000000, 1>>, <<0, 100>>, <<5, 100>>, <<10, 100>>, <<12, 100>>,
     <<15, 100>>, <<1000000, 1>>}

DebtRatios ==
    {<<-1000000, 1>>, <<0, 100>>, <<20, 100>>, <<40, 100>>, <<60, 100>>,
     <<120, 100>>, <<130, 100>>, PosInf}

MetricsGrid ==
    [ budget_ratio : BudgetRatios, runway_months : RunwayMonths,
      invest_rate : InvestRates, dti : DebtRatios, inc : {0, 5000},
      sp : {0}, sav : {0}, debt : {0} ]

\* The tuples compared two by two, as computeMetrics returns them: with an
\* income, the ratios at the breakpoints that decide the tier and the health
\* bucket; without one, infinite budget and debt ratios and nothing invested
PairTuples ==
    [ budget_ratio : {<<80, 100>>, <<100, 100>>, <<120, 100>>},
      runway_months : {<<4, 10>>, <<1, 1>>, <<3, 1>>, <<6, 1>>, <<13, 1>>},
      invest_rate : {<<0, 100>>, <<10, 100>>, <<15, 100>>},
      dti : {<<20, 100>>, <<60, 100>>, <<120, 100>>, <<130, 100>>},
      inc : {5000}, sp : {0}, sav : {0}, debt : {0} ]
    \cup [ budget_ratio : {PosInf},
           runway_months : {<<0, 1>>, <<3, 1>>, <<99999, 1000>>},
           invest_rate : {<<0, 1>>}, dti : {PosInf},
           inc : {0, -500}, sp : {0}, sav : {0}, debt : {0} ]

\* The tuples whose tier is followed to the display: those of PairTuples and,
\* with an income, the ratios at the breakpoints of the two highest tiers
TierTuples ==
    PairTuples
    \cup [ budget_ratio : {<<60, 100>>, <<70, 100>>},
           runway_months : {<<6, 1>>, <<12, 1>>, <<13, 1>>},
           invest_rate : {<<12, 100>>, <<15, 100>>},
           dti : {<<20, 100>>, <<40, 100>>},
           inc : {5000}, sp : {0}, sav : {0}, debt : {0} ]

NoInputs ==
    [ monthly_income |-> Undef, monthly_spending |-> Undef,
      total_savings |-> Undef, total_debt |-> Undef,
      monthly_investments |-> Undef ]

NoScore == [state |-> "", health |-> 0, lstate |-> "", lhealth |-> 0]

\* Nothing to evaluate
ScIdle == [op |-> "none", arg |-> NoInputs, m |-> computeMetrics(NoInputs)] @@ NoScore

\* The evaluations to make: an inputs object for the route, a form record for
\* the client, a metrics tuple for the classifier and the scorers, a tuple to
\* compare with another, a form record for the local fallback, an inputs
\* object for the advice fallback of the route
(***************************************************************************)
(* The tier names of the page (src/public/script.js)                       *)
(***************************************************************************)
\* The thresholds of stateFromHealth, for a health that is a whole number
stateFromHealth(h) ==
    IF h < 15 THEN "ATROCIOUS"
    ELSE IF h < 30 THEN "CRITICAL"
    ELSE IF h < 45 THEN "STRUGGLING"
    ELSE IF h < 60 THEN "SURVIVING"
    ELSE IF h < 75 THEN "HEALTHY"
    ELSE IF h < 90 THEN "THRIVING"
    ELSE "FANTASTIC"

\* The keys of PET_STATES
PET_STATES ==
    {"ATROCIOUS", "CRITICAL", "STRUGGLING", "SURVIVING", "HEALTHY", "THRIVING",
     "FANTASTIC", "EGG"}

\* toAllowedState of script.js, for a state name already in upper case
petAllowedState(state) == IF state \in PET_STATES THEN state ELSE "SURVIVING"

ScSources ==
    {"route", "form", "metrics", "pair", "fallback", "advice", "tiers",
     "both"}

ScInputs(src) ==
    CASE src = "route"    -> RouteInputs
      [] src = "form"     -> FormData
      [] src = "metrics"  -> MetricsGrid
      [] src = "pair"     -> PairTuples
      [] src = "fallback" -> FormData
      [] src = "advice"   -> RouteInputs
      [] src = "tiers"    -> TierTuples
      [] src = "both"     -> RouteInputs

ScTodo(src, a) == [op |-> "todo", src |-> src, arg |-> a] @@ NoScore

\* app.post('/analyze'): the deterministic part of the handler
AnalyzeRoute ==
    /\ sc.op = "todo" /\ sc.src = "route"
    /\ LET m == computeMetrics(sc.arg)
       IN  sc' = [ op |-> "route", arg |-> sc.arg, m |-> m,
                   state |-> pickState(m), health |-> computeHealth(m),
                   lstate |-> "", lhealth |-> 0 ]
    /\ UNCHANGED <<calls, petMessage>>

\* computeLocalFallback(prepareInputs(data)): its metrics, state and health
LocalScore ==
    /\ sc.op = "todo" /\ sc.src = "form"
    /\ LET m == localMetrics(prepareInputs(sc.arg))
       IN  sc' = [ op |-> "local", arg |-> sc.arg, m |-> m,
                   state |-> "", health |-> 0,
                   lstate |-> localPickState(m), lhealth |-> localHealth(m) ]
    /\ UNCHANGED <<calls, petMessage>>

\* pickState / computeHealth and localPickState / localHealth on one tuple
ScoreMetrics ==
    /\ sc.op = "todo" /\ sc.src = "metrics"
    /\ sc' = [ op |-> "metrics", arg |-> sc.arg, m |-> sc.arg,
               state |-> pickState(sc.arg), health |-> computeHealth(sc.arg),
               lstate |-> localPickState(sc.arg),
               lhealth |-> localHealth(sc.arg) ]
    /\ UNCHANGED <<calls, petMessage>>

\* pickState and computeHealth on two tuples: the one to evaluate and any other
ComparePair ==
    /\ sc.op = "todo" /\ sc.src = "pair"
    /\ \E t \in PairTuples :
          sc' = [ op |-> "pair", arg |-> sc.arg, m |-> sc.arg,
                  state |-> pickState(sc.arg), health |-> computeHealth(sc.arg),
                  lstate |-> "", lhealth |-> 0,
                  m2 |-> t, state2 |-> pickState(t),
                  health2 |-> computeHealth(t) ]
    /\ UNCHANGED <<calls, petMessage>>

\* finalizeForUI(computeLocalFallback(prepareInputs(data))), the last step of
\* analyzeFinancialData: the local result and its post-processed form
LocalFallback ==
    /\ sc.op = "todo" /\ sc.src = "fallback"
    /\ LET inp == prepareInputs(sc.arg)
           m   == localMetrics(inp)
       IN  \E r \in {computeLocalFallback(inp)} :
              sc' = [ op |-> "fallback", arg |-> sc.arg, m |-> m,
                      state |-> "", health |-> 0,
                      lstate |-> r.state, lhealth |-> r.health.n,
                      local |-> r, final |-> finalizeForUI(r, petMessage) ]
    /\ UNCHANGED <<calls, petMessage>>

\* app.post('/analyze') when the provider fails or returns nothing usable:
\* the state and health with the advice of buildLocalAdvice
RouteFallback ==
    /\ sc.op = "todo" /\ sc.src = "advice"
    /\ LET m == computeMetrics(sc.arg)
       IN  sc' = [ op |-> "advice", arg |-> sc.arg, m |-> m,
                   state |-> pickState(m), health |-> computeHealth(m),
                   lstate |-> "", lhealth |-> 0,
                   advice |-> buildLocalAdvice(m) ]
    /\ UNCHANGED <<calls, petMessage>>

\* The body /analyze answers with for a tuple of metrics
ServerBody(m) ==
    [state |-> pickState(m), health |-> Num(computeHealth(m)),
     headline |-> <<"o", "k">>, advice |-> <<>>]

\* A tier from its classifier to the display.  The tier of the server goes
\* through looksNormalized and finalizeForUI to updatePetDisplay, the tier of
\* the local fallback through finalizeForUI to updatePetDisplay, the tier of
\* stateFromHealth to updatePetDisplay.
ShowTiers ==
    /\ sc.op = "todo" /\ sc.src = "tiers"
    /\ sc' = [ op |-> "tiers", arg |-> sc.arg,
               serverTier |-> pickState(sc.arg),
               accepted |-> looksNormalized(ServerBody(sc.arg)),
               serverShown |->
                   petAllowedState(finalizeForUI(ServerBody(sc.arg), <<>>).state),
               localTier |-> localPickState(sc.arg),
               localShown |->
                   petAllowedState(finalizeForUI(LocalResult(sc.arg), <<>>).state),
               healthTier |-> stateFromHealth(computeHealth(sc.arg)),
               healthShown |->
                   petAllowedState(stateFromHealth(computeHealth(sc.arg))) ]
    /\ UNCHANGED <<calls, petMessage>>

\* One inputs record scored twice: by the server, as POST /analyze scores the
\* body, and by the client, as computeLocalFallback scores the same record
\* when the server gave no usable answer
ScoreBoth ==
    /\ sc.op = "todo" /\ sc.src = "both"
    /\ LET m  == computeMetrics(sc.arg)
           lm == localMetrics(sc.arg)
       IN  sc' = [ op |-> "both", arg |-> sc.arg, m |-> m, lm |-> lm,
                   state |-> pickState(m), health |-> computeHealth(m),
                   lstate |-> localPickState(lm),
                   lhealth |-> localHealth(lm) ]
    /\ UNCHANGED <<calls, petMessage>>

ScoreNext ==
    \/ AnalyzeRoute \/ LocalScore \/ ScoreMetrics \/ ComparePair
    \/ LocalFallback \/ RouteFallback \/ ShowTiers \/ ScoreBoth

(***************************************************************************)
(* analyzeFinancialData and postJson as a state machine.  There are two    *)
(* call slots, one per caller: handleSubmit and handleFeedPenny each       *)
(* disable their own button while their call is pending, so each has at    *)
(* most one call in flight, and the two can overlap.                       *)
(***************************************************************************)
TIMEOUT_MS == 15000

Calls == {1, 2}

T_Save == <<"S", "a", "v", "e", " ", "5", "%">>

T_Cut == <<"C", "u", "t", " ", "(", "1", ")", " ", "m", "o">>

T_CutUpper == <<"C", "U", "T", " ", "1", " ", "M", "O">>

T_Sun == <<"O", "k", " ", "U+2600">>

T_Low == <<"L", "o", "w", ":", " ", "p", "a", "y">>

DepositText ==
    <<"Y", "o", "u", " ", "d", "e", "p", "o", "s", "i", "t", "e", "d", " ",
      "$", "5", ".", "0", "0", "!", " ", "W", "a", "y", " ", "t", "o", " ",
      "g", "r", "o", "w", " ", "y", "o", "u", "r", " ", "s", "a", "v", "i",
      "n", "g", "s", ".">>

\* What the callers write before they call
AnalyzingText == <<"G", "e", "m", "i", "n", "i", " ", "i", "s", " ", "a", "n",
                   "a", "l", "y", "z", "i", "n", "g", " ", "y", "o", "u", "r",
                   " ", "f", "i", "n", "a", "n", "c", "e", "s", ".", ".", ".">>

\* The JSON of a legacy candidate, by the object it spells
LegacyPayload(toks) ==
    [candidates |-> <<[content |-> [parts |-> <<[text |-> toks]>>]]>>]

ObjCritical ==
    [state |-> "CRITICAL", health |-> Num(10), headline |-> T_Low,
     advice |-> <<T_Save>>]

ObjMalformed ==
    [state |-> "BOGUS", health |-> Null, headline |-> T_Low,
     advice |-> <<T_Cut>>]

ObjTextHealth ==
    [state |-> "healthy", health |-> Str, headline |-> T_Save]

\* The bodies a 200 response can carry, once r.json() has parsed them.
\* Normalized:
BodyFull ==
    [state |-> "HEALTHY", health |-> Num(72), headline |-> T_Save,
     message |-> T_Low, advice |-> <<T_Cut, T_CutUpper, T_Sun>>]

BodyLowerCase ==
    [state |-> "thriving", health |-> Frac(1255, 10), message |-> T_Sun]

BodyEmptyMessage == [state |-> "CRITICAL", health |-> Num(-3), message |-> <<>>]

\* Normalized, and a legacy candidate as well
BodyBoth ==
    [state |-> "LEGENDARY", health |-> Infinity, headline |-> T_Save,
     candidates |-> <<[text |-> <<LB, Members(ObjCritical), RB>>]>>]

\* Normalized in shape, but a state outside the enumeration or a health that
\* is no number
BodyBadState ==
    [state |-> "ATROCIOUS", health |-> Num(10), headline |-> T_Low,
     advice |-> <<T_Save>>]

BodyTextHealth ==
    [state |-> "HEALTHY", health |-> NumStr(72), headline |-> T_Low,
     advice |-> <<T_Save>>]

\* Legacy candidates: fenced JSON inside prose, an object after a brace group
\* that does not parse, an object with a state and a health that are not
\* valid, an empty object, and an unbalanced group
BodyLegacyFenced ==
    LegacyPayload(<<Prose, WS, Fence, LB, Members(ObjCritical), RB, Fence, WS,
                    Prose>>)

BodyLegacyNested ==
    LegacyPayload(<<Prose, LB, Prose, RB, LB, Members(ObjTextHealth), LB, RB,
                    RB, Prose>>)

BodyLegacyMalformed == LegacyPayload(<<LB, Members(ObjMalformed), RB>>)

BodyLegacyEmpty == LegacyPayload(<<LB, RB>>)

BodyLegacyGarbage ==
    LegacyPayload(<<Prose, LB, Members(ObjCritical), Prose>>)

Bodies ==
    { BodyFull, BodyLowerCase, BodyEmptyMessage, BodyBoth, BodyBadState,
      BodyTextHealth, BodyLegacyFenced, BodyLegacyNested, BodyLegacyMalformed,
      BodyLegacyEmpty, BodyLegacyGarbage }

\* The body of an error response
ErrorBodies == {[error |-> <<"N", "o", " ", "k", "e", "y">>]}

\* The form records of the callers: every field filled in, and a record with
\* a field that is no number and a field that is missing
RecordFilled ==
    [income |-> NumStr(5000), spending |-> NumStr(3000),
     savings |-> NumStr(10000), debt |-> NumStr(2000),
     monthlyInvestments |-> NumStr(500), investmentBalance |-> NumStr(0)]

RecordPartial ==
    [income |-> Str, spending |-> NumStr(850), savings |-> Undef,
     debt |-> NumStr(0), monthlyInvestments |-> NumStr(0),
     investmentBalance |-> NumStr(0)]

FormRecords == {RecordFilled, RecordPartial}

NoData ==
    [income |-> Undef, spending |-> Undef, savings |-> Undef, debt |-> Undef,
     monthlyInvestments |-> Undef, investmentBalance |-> Undef]

NoResult ==
    [state |-> "", health |-> 0, message |-> <<>>, headline |-> <<>>,
     advice |-> <<>>]

NoTimer == [status |-> "none", ms |-> 0]

\* No timer armed
MutNoTimer == [status |-> "none", ms |-> 0]

\* setTimeout(() => ctrl.abort(), timeoutMs)
ArmedTimer == [status |-> "armed", ms |-> TIMEOUT_MS]

IdleCall ==
    [ pc |-> "idle", data |-> NoData, timer |-> NoTimer, aborted |-> FALSE,
      sent |-> 0, ok |-> FALSE, outcome |-> "none", json |-> EmptyObj,
      path |-> "none", result |-> NoResult ]

\* Paths B and C: the legacy candidate when it parsed, else the local fallback
LegacyOrLocal(parsed, inputs) ==
    TheValue({IF p.ok THEN [path |-> "legacy", obj |-> p.value]
              ELSE [path |-> "local", obj |-> computeLocalFallback(inputs)] :
              p \in {parsed}})

\* The legacy candidate tried before the normalized shape
MutInterpretLegacyFirst(json, inputs) ==
    IF parseGeminiCandidates(json).ok
    THEN [path |-> "legacy", obj |-> parseGeminiCandidates(json).value]
    ELSE IF looksNormalized(json) THEN [path |-> "normalized", obj |-> json]
    ELSE [path |-> "local", obj |-> computeLocalFallback(inputs)]

\* The three interpretations of a response, in the order of the source: the
\* path taken and the object handed to finalizeForUI
Interpret(json, inputs) ==
    IF looksNormalized(json) THEN [path |-> "normalized", obj |-> json]
    ELSE LegacyOrLocal(parseGeminiCandidates(json), inputs)

\* The catch block: the local fallback on the inputs prepared again
CatchBlock(data) ==
    [path |-> "local", obj |-> computeLocalFallback(prepareInputs(data))]

\* The body of analyzeFinancialData after `await postJson(...)`: postJson
\* threw, or the response was not ok (which throws), or it is interpreted
Taken(data, threw, ok, json) ==
    IF threw \/ ~ok THEN CatchBlock(data)
    ELSE Interpret(json, prepareInputs(data))

\* One timer handle shared by the calls: the handle of a call in flight
MutSharedTimer(c) ==
    IF \E d \in Calls \ {c} : calls[d].timer.status = "armed"
    THEN CHOOSE d \in Calls \ {c} : calls[d].timer.status = "armed"
    ELSE c

\* The clearTimeout(t) of the finally block: the call whose timer it clears.
\* t is a local of postJson, so it is the call's own.
TimerOf(c) == c

ClearedTimer(timer) ==
    IF timer.status = "armed" THEN [timer EXCEPT !.status = "cleared"] ELSE timer

ClearIf(mine, call) ==
    IF mine THEN [call EXCEPT !.timer = ClearedTimer(call.timer)] ELSE call

\* What the caller writes into #petMessage once the call has resolved
NextMsg(result) == result.message

\* The record of a call that has resolved
Finished(call, how, ok, json, path, result) ==
    [call EXCEPT !.pc = "done", !.ok = ok, !.outcome = how, !.json = json,
                 !.path = path, !.result = result]

\* The promise resolves with result, the finally block of postJson has run,
\* and the caller shows the message
Store(c, call, how, ok, json, path, result) ==
    /\ calls' = [d \in Calls |->
                    ClearIf(d = TimerOf(c),
                            IF d = c
                            THEN Finished(call, how, ok, json, path, result)
                            ELSE calls[d])]
    /\ petMessage' = NextMsg(result)
    /\ UNCHANGED sc

Finalized(c, call, how, ok, json, taken) ==
    \E t \in {taken} :
        \E result \in {finalizeForUI(t.obj, petMessage)} :
            Store(c, call, how, ok, json, t.path, result)

\* The continuation after `await postJson(...)` up to the return, and the
\* caller's continuation.  how is what the collaborator did; threw says
\* whether postJson threw.
Settle(c, how, threw, ok, json) ==
    Finalized(c, calls[c], how, ok, json,
              Taken(calls[c].data, threw, ok, json))

\* The caller sets the placeholder and calls; analyzeFinancialData builds the
\* prompt and the inputs and postJson arms its timer and sends the request.
StartCall(c, data) ==
    /\ calls[c].pc \in {"idle", "done"}
    /\ calls' = [calls EXCEPT ![c] =
                    [IdleCall EXCEPT !.pc = "fetch", !.data = data,
                                     !.timer = ArmedTimer, !.sent = 1]]
    /\ petMessage' = AnalyzingText
    /\ UNCHANGED sc

\* fetch resolves with the status line and the headers
ResponseArrives(c, ok) ==
    /\ calls[c].pc = "fetch"
    /\ calls' = [calls EXCEPT ![c].pc = "body", ![c].ok = ok]
    /\ UNCHANGED <<sc, petMessage>>

\* fetch rejects: the network failed
NetworkFails(c) ==
    /\ calls[c].pc = "fetch"
    /\ Settle(c, "network", TRUE, FALSE, EmptyObj)

\* r.json() resolves with the parsed body
BodyParsed(c, json) ==
    /\ calls[c].pc = "body"
    /\ json \in (IF calls[c].ok THEN Bodies ELSE ErrorBodies)
    /\ Settle(c, "body", FALSE, calls[c].ok, json)

\* r.json() rejects (an empty or unparseable body) and .catch(() => ({}))
\* turns that into {}
BodyUnparseable(c) ==
    /\ calls[c].pc = "body"
    /\ Settle(c, "unparseable", FALSE, calls[c].ok, EmptyObj)

\* The timer of the call fires: ctrl.abort()
Fired(call) == [call EXCEPT !.timer.status = "fired", !.aborted = TRUE]

\* The timer fires and aborts the request.  While fetch is pending it rejects
\* with an AbortError, so postJson throws; while the body is read r.json()
\* rejects, which the .catch turns into {}.
Timeout(c) ==
    /\ calls[c].pc \in {"fetch", "body"}
    /\ calls[c].timer.status = "armed"
    /\ Finalized(c, Fired(calls[c]), "abort", calls[c].ok, EmptyObj,
                 Taken(calls[c].data, calls[c].pc = "fetch", calls[c].ok,
                       EmptyObj))

\* Another handler rewrites the speech bubble (updatePetDisplay)
ShowReaction(text) ==
    /\ petMessage # text
    /\ petMessage' = text
    /\ UNCHANGED <<sc, calls>>

ReactionTexts == {DepositText}

CallsInit ==
    /\ calls = [c \in Calls |-> IdleCall]
    /\ petMessage = <<>>

CallsNext ==
    \/ \E c \in Calls, data \in FormRecords : StartCall(c, data)
    \/ \E c \in Calls, ok \in BOOLEAN : ResponseArrives(c, ok)
    \/ \E c \in Calls : NetworkFails(c)
    \/ \E c \in Calls, json \in Bodies \cup ErrorBodies : BodyParsed(c, json)
    \/ \E c \in Calls : BodyUnparseable(c)
    \/ \E c \in Calls : Timeout(c)
    \/ \E text \in ReactionTexts : ShowReaction(text)

Init == sc = ScIdle /\ CallsInit

Next == CallsNext

Spec == Init /\ [][Next]_vars

\* The orchestrator on fewer inputs, for the properties of progress: what a
\* body holds does not decide whether a call ends
LiveRecords == {RecordPartial}

LiveBodies == {BodyFull, BodyLegacyMalformed, BodyLegacyGarbage}

LiveNext ==
    \/ \E c \in Calls, data \in LiveRecords : StartCall(c, data)
    \/ \E c \in Calls, ok \in BOOLEAN : ResponseArrives(c, ok)
    \/ \E c \in Calls : NetworkFails(c)
    \/ \E c \in Calls, json \in LiveBodies \cup ErrorBodies : BodyParsed(c, json)
    \/ \E c \in Calls : BodyUnparseable(c)
    \/ \E c \in Calls : Timeout(c)
    \/ \E text \in ReactionTexts : ShowReaction(text)

\* The event loop runs a timer callback that is due
FairSpec == Init /\ [][LiveNext]_vars /\ \A c \in Calls : WF_vars(Timeout(c))

ScoreInit ==
    /\ \E src \in ScSources : \E a \in ScInputs(src) : sc = ScTodo(src, a)
    /\ CallsInit

ScoreSpec == ScoreInit /\ [][ScoreNext]_vars

(***************************************************************************)
(* The text helpers as a state machine.  Each step takes one string and    *)
(* records what sanitizeLine, applied once and applied again as the next   *)
(* layer does, or shorten makes of it.                                     *)
(***************************************************************************)
\* The longest string drawn from the alphabet of sanitizeLine
MaxTextLen == 4

\* The longest string drawn from the alphabet of shorten
MaxWordsLen == 6

\* A letter, the shorthand, each kind of symbol the function treats, a slash
TextChars == {"a", "m", "o", ".", " ", "%", "(", "/", "U+2600"}

WordsChars == {"a", " ", ".", "!"}

StringsOver(A, n) == UNION {[1..k -> A] : k \in 0..n}

\* Metrics whose advice lines, on the server, reach every kind of symbol
AdviceMetrics ==
    {computeMetrics(i) : i \in
        [ monthly_income : {Num(0), Num(5000)}, monthly_spending : {Num(3000)},
          total_savings : {Num(400), Num(10000)}, total_debt : {Num(2000)},
          monthly_investments : {Num(0), Num(500)} ]}

\* The strings given to sanitizeLine: every short string over the alphabet and
\* the advice lines of the server, which reach the client in a normalized body
SanitizeInputs ==
    StringsOver(TextChars, MaxTextLen)
    \cup UNION {{buildLocalAdvice(m)[i] : i \in 1..3} : m \in AdviceMetrics}

\* A run of n copies of the character c
Run(c, n) == [i \in 1..n |-> c]

\* Strings longer than the default limit of 96: words of 9 letters, a single
\* run of letters, a run that ends in a period at the limit
LongTexts ==
    { Flatten([i \in 1..12 |-> Run("a", 9) \o <<" ">>], 1, 12),
      Run("a", 97),
      Run("a", 95) \o <<".", "a", "a">> }

\* The strings and limits given to shorten
ShortenInputs ==
    (StringsOver(WordsChars, MaxWordsLen) \X {3, 4}) \cup (LongTexts \X {96})


\* sanitizeLine(s), and sanitizeLine of the result as finalizeForUI applies it
\* to a line that computeLocalFallback sanitized
SanitizeText ==
    /\ sc.op = "todo" /\ sc.src = "sanitize"
    /\ \E t \in {sanitizeLine(sc.arg)} :
          sc' = [op |-> "sanitize", arg |-> sc.arg, out |-> t,
                 twice |-> sanitizeLine(t)]
    /\ UNCHANGED <<calls, petMessage>>

\* shorten(s, max)
ShortenText ==
    /\ sc.op = "todo" /\ sc.src = "shorten"
    /\ sc' = [op |-> "shorten", arg |-> sc.arg, max |-> sc.max,
              out |-> shorten(sc.arg, sc.max)]
    /\ UNCHANGED <<calls, petMessage>>

\* The longest advice list given to finalizeForUI
MaxAdviceLen == 4

\* An advice line that is only an emoji: nothing is left of it once cleaned
T_OnlySun == <<"U+2600">>

\* The lines an advice list is drawn from
AdviceLines == {T_Cut, T_CutUpper, T_Sun, T_Save, T_OnlySun}

\* finalizeForUI on a normalized object with a given advice list
FinalizeList ==
    /\ sc.op = "todo" /\ sc.src = "finalize"
    /\ sc' = [op |-> "finalize", arg |-> sc.arg,
              cleaned |-> CleanedAdvice(sc.arg),
              final |-> finalizeForUI([state |-> "HEALTHY", health |-> Num(72),
                                       headline |-> T_Low, advice |-> sc.arg],
                                      petMessage)]
    /\ UNCHANGED <<calls, petMessage>>

\* The longest run of prose before and after the object of a candidate text
MaxProseLen == 2

ProseTokens == {Prose, LB, RB, WS, Fence}

\* Texts of one object: plain, with a nested object, and with a '}', a '{'
\* or a "{}" inside a string value
PlainObjectText == <<LB, Members(ObjCritical), RB>>

NestedObjectText == <<LB, Members(ObjTextHealth), LB, RB, RB>>

CloseInStringText == <<LB, SOpen(ObjCritical), RB, SClose, RB>>

OpenInStringText == <<LB, SOpen(ObjCritical), LB, SClose, RB>>

GroupInStringText == <<LB, SOpen(ObjCritical), LB, RB, SClose, RB>>

ObjectTexts ==
    {PlainObjectText, NestedObjectText, CloseInStringText, OpenInStringText,
     GroupInStringText}

\* What stands between the two runs of prose: an object, nothing, or a brace
\* group that is no JSON
MiddleTexts == ObjectTexts \cup {<<>>, <<LB, Prose, RB>>}

\* extractJson on the text of a candidate
ExtractText ==
    /\ sc.op = "todo" /\ sc.src = "extract"
    /\ sc' = [op |-> "extract", pre |-> sc.pre, mid |-> sc.mid,
              post |-> sc.post,
              out |-> extractJson(sc.pre \o sc.mid \o sc.post)]
    /\ UNCHANGED <<calls, petMessage>>

TextNext == SanitizeText \/ ShortenText \/ FinalizeList \/ ExtractText

TextInit ==
    /\ \/ \E s \in SanitizeInputs :
             sc = [op |-> "todo", src |-> "sanitize", arg |-> s]
       \/ \E p \in ShortenInputs :
             sc = [op |-> "todo", src |-> "shorten", arg |-> p[1], max |-> p[2]]
       \/ \E n \in 0..MaxAdviceLen : \E l \in [1..n -> AdviceLines] :
             sc = [op |-> "todo", src |-> "finalize", arg |-> l]
       \/ \E n, k \in 0..MaxProseLen :
             \E a \in [1..n -> ProseTokens], b \in [1..k -> ProseTokens] :
                \E o \in MiddleTexts :
                   sc = [op |-> "todo", src |-> "extract", pre |-> a,
                         mid |-> o, post |-> b]
    /\ CallsInit

TextSpec == TextInit /\ [][TextNext]_vars

(***************************************************************************)
(* Properties of the orchestrator (Spec, FairSpec)                         *)
(***************************************************************************)
Done(c) == calls[c].pc = "done"

Pending(c) == calls[c].pc \in {"fetch", "body"}

\* The response of a finished call was interpreted: it arrived with an ok
\* status and its body was read (parsed, or turned into {})
Interpreted(c) ==
    Done(c) /\ calls[c].ok /\ calls[c].outcome \in {"body", "unparseable"}

\* The local fallback of the call's input record, post-processed against
\* any text on screen: its state, health, headline and advice
LocalOf(c) == finalizeForUI(CatchBlock(calls[c].data).obj, <<>>)

\* C1: whatever the input record and whatever the collaborator did (error
\* status, network failure, abort by the timer, unparseable or empty body), a
\* call that has left the request has resolved, never rejected, and the
\* message of its result is not empty.
C1_ResolvesWithMessage ==
    \A c \in Calls :
        /\ calls[c].pc \in {"idle", "fetch", "body", "done"}
        /\ Done(c) => calls[c].result.message # <<>>

\* A call that ended in each kind of failure, and one whose message is the
\* fixed default
C1_Witness ==
    /\ Done(1) /\ calls[1].outcome = "abort" /\ calls[1].result.message # <<>>
    /\ Done(2) /\ calls[2].outcome = "body" /\ calls[2].result.message = AllSet

\* C2: a successful response is interpreted in strict priority order: the
\* normalized shape whenever it matches, the legacy candidate only when the
\* normalized check fails, the local fallback only when both yield nothing;
\* the result is built from the first that succeeds.
C2_PriorityOrder ==
    \A c \in Calls :
        Interpreted(c) =>
            /\ calls[c].path = "normalized" <=> looksNormalized(calls[c].json)
            /\ calls[c].path = "legacy" <=>
                  /\ ~looksNormalized(calls[c].json)
                  /\ parseGeminiCandidates(calls[c].json).ok
            /\ calls[c].path = "local" <=>
                  /\ ~looksNormalized(calls[c].json)
                  /\ ~parseGeminiCandidates(calls[c].json).ok
            /\ calls[c].path = "normalized" =>
                  calls[c].result.headline = FinalHeadline(calls[c].json)
            /\ calls[c].path = "legacy" =>
                  calls[c].result.headline =
                      FinalHeadline(parseGeminiCandidates(calls[c].json).value)
            /\ calls[c].path = "local" =>
                  calls[c].result.headline = LocalOf(c).headline

\* A body that has the normalized shape and carries a parseable candidate as
\* well was taken as normalized
C2_Witness ==
    \E c \in Calls :
        /\ Interpreted(c)
        /\ looksNormalized(calls[c].json)
        /\ parseGeminiCandidates(calls[c].json).ok
        /\ calls[c].path = "normalized"
        /\ calls[c].result.headline # FinalHeadline(parseGeminiCandidates(calls[c].json).value)

\* C3: a call sends exactly one request, guarded by a timer of 15000 ms that
\* aborts it; an abort ends the call like any other failure (the result comes
\* from the local fallback, nothing is sent again, the caller gets a result);
\* and every call in flight eventually resolves, whether or not the
\* collaborator answers.
C3_OneRequestBoundedByTimer ==
    /\ [](\A c \in Calls :
            /\ Pending(c) =>
                  /\ calls[c].sent = 1
                  /\ calls[c].timer = [status |-> "armed", ms |-> 15000]
            /\ Done(c) =>
                  /\ calls[c].sent = 1
                  /\ calls[c].timer.status \in {"cleared", "fired"}
                  /\ calls[c].timer.status = "fired" <=> calls[c].aborted
                  /\ calls[c].aborted =>
                        /\ calls[c].outcome = "abort"
                        /\ calls[c].path = "local"
                        /\ calls[c].result.headline = LocalOf(c).headline
                        /\ calls[c].result.state = LocalOf(c).state
                        /\ calls[c].result.message # <<>>)
    /\ \A c \in Calls : Pending(c) ~> Done(c)

\* A call whose timer fired while the body was being read has resolved from
\* the local fallback
C3_Witness ==
    \E c \in Calls :
        /\ Done(c) /\ calls[c].aborted /\ calls[c].timer.status = "fired"
        /\ calls[c].ok
        /\ calls[c].path = "local"

\* C4: overlapping calls have their own timer and abort signal: a step that
\* arms, clears or fires the timer of a call, or aborts it, is a step of that
\* call and leaves the record of every other call as it was.
C4_TimersDoNotInterfere ==
    [][\A c \in Calls :
          (calls'[c].timer # calls[c].timer \/ calls'[c].aborted # calls[c].aborted)
              => /\ calls'[c].pc # calls[c].pc
                 /\ \A d \in Calls \ {c} : calls'[d] = calls[d]]_vars

\* One call has timed out and the other, still in flight, has its timer armed
C4_Witness ==
    \E c \in Calls, d \in Calls :
        /\ c # d
        /\ Done(c) /\ calls[c].timer.status = "fired"
        /\ Pending(d) /\ calls[d].timer.status = "armed" /\ ~calls[d].aborted

\* Two calls were given the same input record and the collaborator did the
\* same for both
SameCall(c, d) ==
    /\ Done(c) /\ Done(d)
    /\ calls[c].data = calls[d].data
    /\ calls[c].outcome = calls[d].outcome
    /\ calls[c].ok = calls[d].ok
    /\ calls[c].json = calls[d].json

LocalState(c) == localPickState(localMetrics(prepareInputs(calls[c].data)))

LocalHealth(c) == localHealth(localMetrics(prepareInputs(calls[c].data)))

\* C6, as stated: the state and the health of every result are the values
\* computed from the six inputs; the response decides only headline, advice
\* and message.
C6_StateAndHealthFromInputs ==
    \A c \in Calls :
        Done(c) => /\ calls[c].result.state = LocalState(c)
                   /\ calls[c].result.health = LocalHealth(c)

\* C6, amended: the state and the health are computed from the six inputs
\* only on the local path (a failure, an abort, a response that is neither
\* normalized nor a parseable candidate); on the normalized path they are the
\* state and the health of the response, on the legacy path those of the
\* candidate, upper-cased and rounded and clamped.
C6_StateAndHealthByPath ==
    \A c \in Calls :
        Done(c) =>
            /\ ~Interpreted(c) => calls[c].path = "local"
            /\ calls[c].path = "local" =>
                  /\ calls[c].result.state = LocalState(c)
                  /\ calls[c].result.health = LocalHealth(c)
            /\ calls[c].path = "normalized" =>
                  /\ calls[c].result.state = toUpperCaseName(calls[c].json.state)
                  /\ calls[c].result.health = clamp0to100(calls[c].json.health)
            /\ calls[c].path = "legacy" =>
                  /\ calls[c].result.state =
                        toAllowedState(ExtractFrom(calls[c].json).value)
                  /\ calls[c].result.health =
                        clamp0to100(HealthValue(ExtractFrom(calls[c].json).value))

\* A legacy candidate decided a state and a health that differ from the ones
\* computed from the inputs
C6_Witness ==
    \E c \in Calls :
        /\ Interpreted(c) /\ calls[c].path = "legacy"
        /\ calls[c].result.state = "CRITICAL" /\ calls[c].result.health = 10
        /\ LocalState(c) = "HEALTHY" /\ LocalHealth(c) = 90

\* The state of an object is outside the enumeration; its health is no number
BadState(o) == toUpperCaseName(StateString(o)) \notin ClientAllowed

BadHealth(o) == ~TypeofNumber(HealthValue(o))

\* The payload is malformed: the object it carries at the top level, or the
\* one its candidate spells, has a state outside the enumeration or a health
\* that is no number, or the candidate does not parse
Malformed(json) ==
    IF Has(json, "state") \/ Has(json, "health")
    THEN BadState(json) \/ BadHealth(json)
    ELSE /\ HasCandidate(json)
         /\ \/ ~ExtractFrom(json).ok
            \/ BadState(ExtractFrom(json).value)
            \/ BadHealth(ExtractFrom(json).value)

\* C7, as stated: a malformed payload is discarded as a whole and the next
\* tier is used; no headline or advice of the payload appears in the result.
C7_MalformedDiscarded ==
    \A c \in Calls :
        (Interpreted(c) /\ Malformed(calls[c].json)) =>
            /\ calls[c].path = "local"
            /\ calls[c].result.headline = LocalOf(c).headline
            /\ calls[c].result.advice = LocalOf(c).advice

\* C7, amended: an object at the top level with a state outside the
\* enumeration or a health that is no number is never taken as normalized,
\* and a candidate that does not parse is discarded, the local fallback
\* giving headline and advice; but a candidate that parses is kept with its
\* headline, its state coerced (SURVIVING when outside the enumeration) and
\* its health coerced by Number() (50 when that is not finite, so 0 for null).
C7_MalformedCoercedOrDiscarded ==
    \A c \in Calls :
        Interpreted(c) =>
            /\ (BadState(calls[c].json) \/ BadHealth(calls[c].json)) =>
                  calls[c].path # "normalized"
            /\ calls[c].path = "local" =>
                  /\ calls[c].result.headline = LocalOf(c).headline
                  /\ calls[c].result.advice = LocalOf(c).advice
            /\ (HasCandidate(calls[c].json) /\ ~ExtractFrom(calls[c].json).ok) =>
                  calls[c].path # "legacy"
            /\ calls[c].path = "legacy" =>
                  /\ calls[c].result.headline =
                        FinalHeadline(ExtractFrom(calls[c].json).value)
                  /\ BadState(ExtractFrom(calls[c].json).value) =>
                        calls[c].result.state = "SURVIVING"
                  /\ calls[c].result.health =
                        clamp0to100(HealthValue(ExtractFrom(calls[c].json).value))

\* A candidate with a state outside the enumeration and a null health was
\* kept: its headline is in the result, with SURVIVING and 0
C7_Witness ==
    \E c \in Calls :
        /\ Interpreted(c) /\ calls[c].json = BodyLegacyMalformed
        /\ calls[c].path = "legacy"
        /\ calls[c].result.state = "SURVIVING" /\ calls[c].result.health = 0
        /\ calls[c].result.headline = sanitizeLine(T_Low)
        /\ calls[c].result.headline # LocalOf(c).headline

\* C8: whatever object reaches finalizeForUI, the state of the result is one
\* of the 7 tier names (the upper-cased state, SURVIVING for any other) and
\* the health an integer in 0..100: a value above 100 gives 100, one below 0
\* gives 0, one that is no finite number gives 50.
C8_StateAllowedHealthInRange ==
    \A c \in Calls :
        Done(c) =>
            /\ calls[c].result.state \in ClientAllowed
            /\ calls[c].result.health \in 0..100
            /\ calls[c].path = "normalized" =>
                  /\ calls[c].result.state = toUpperCaseName(calls[c].json.state)
                  /\ ~IsFiniteNumber(calls[c].json.health) =>
                        calls[c].result.health = 50
                  /\ (/\ IsFiniteNumber(calls[c].json.health)
                      /\ calls[c].json.health.n > 100 * calls[c].json.health.d) =>
                        calls[c].result.health = 100
                  /\ (/\ IsFiniteNumber(calls[c].json.health)
                      /\ calls[c].json.health.n < 0) =>
                        calls[c].result.health = 0
            /\ (calls[c].path = "legacy"
                  /\ BadState(ExtractFrom(calls[c].json).value)) =>
                  calls[c].result.state = "SURVIVING"

\* A normalized body with a lower-case state and a health of 125.5 gave
\* THRIVING and 100
C8_Witness ==
    \E c \in Calls :
        /\ Interpreted(c) /\ calls[c].json = BodyLowerCase
        /\ calls[c].result.state = "THRIVING"
        /\ calls[c].result.health = 100

(***************************************************************************)
(* Properties of the scoring pipeline (ScoreSpec)                          *)
(***************************************************************************)
\* C9: for every metrics tuple, with infinite ratios and extreme values too,
\* computeHealth and localHealth return an integer between 0 and 100.
C9_HealthInRange ==
    /\ sc.op \in {"route", "metrics"} => sc.health \in 0..100
    /\ sc.op \in {"local", "metrics"} => sc.lhealth \in 0..100

\* A tuple whose additive score is negative was scored 0 by both
C9_Witness ==
    /\ sc.op = "metrics"
    /\ sc.m.budget_ratio = PosInf /\ sc.m.dti = PosInf
    /\ RawHealth(sc.m) < 0
    /\ sc.health = 0 /\ sc.lhealth = 0

\* C10: whenever the monthly income is 0 or less (missing and non-numeric
\* incomes count as 0), whatever the other inputs, the classifier returns the
\* worst tier and the health is at most 25.
C10_NoIncomeWorstTier ==
    /\ (sc.op = "route" /\ NumberOrZero(sc.arg.monthly_income) <= 0) =>
          /\ sc.state = "ATROCIOUS"
          /\ sc.health <= 25
    /\ (sc.op = "local" /\ NumberOrZero(sc.arg.income) <= 0) =>
          /\ sc.lstate = "FLATLINED"
          /\ sc.lhealth <= 25

\* A negative income with the largest savings and no spending, debt or
\* investments: the worst tier and a health of 10
C10_Witness ==
    /\ sc.op = "route"
    /\ sc.arg.monthly_income = Num(-500)
    /\ sc.arg.total_savings = Num(70000)
    /\ sc.arg.monthly_spending = Num(0)
    /\ sc.state = "ATROCIOUS"
    /\ sc.health = 10

ServerTiers == {ALLOWED_STATES[i] : i \in 1..Len(ALLOWED_STATES)}

ClientTiers == {ClientStates[i] : i \in 1..Len(ClientStates)}

\* No condition of pickState holds of the tuple
NoRule(m) ==
    /\ ~AtrociousRule(m) /\ ~CriticalRule(m) /\ ~StrugglingRule(m)
    /\ ~SurvivingRule(m) /\ ~HealthyRule(m) /\ ~ThrivingRule(m)
    /\ ~FantasticRule(m)

\* C11: pickState and localPickState are total.  Every metrics tuple, with
\* infinite ratios and values on the tier boundaries too, is given one of the
\* 7 tiers; a tuple that matches no condition is given the default tier and
\* never falls through unclassified.
C11_PickStateTotal ==
    /\ sc.op \in {"route", "metrics"} =>
          /\ sc.state \in ServerTiers
          /\ NoRule(sc.m) => sc.state = "SURVIVING"
    /\ sc.op \in {"local", "metrics"} =>
          /\ sc.lstate \in ClientTiers
          /\ NoRule(sc.m) => sc.lstate = "SURVIVING"

\* A tuple on the boundaries that matches no condition (runway exactly 3,
\* nothing invested) was classified by the final return
C11_Witness ==
    /\ sc.op = "metrics"
    /\ sc.m.runway_months = <<3, 1>> /\ sc.m.invest_rate = <<0, 100>>
    /\ sc.m.budget_ratio = <<80, 100>> /\ sc.m.dti = <<60, 100>>
    /\ NoRule(sc.m)
    /\ sc.state = "SURVIVING" /\ sc.lstate = "SURVIVING"

\* Some condition of the four worse tiers holds of the tuple
WorseRule(m) ==
    AtrociousRule(m) \/ CriticalRule(m) \/ StrugglingRule(m) \/ SurvivingRule(m)

\* C12: classification is most-severe-match-wins.  The tier returned is the
\* first, from worst to best, whose condition holds, so HEALTHY, THRIVING or
\* FANTASTIC is returned only when no ratio satisfies any disjunct of the
\* ATROCIOUS, CRITICAL, STRUGGLING or SURVIVING conditions.
C12_MostSevereMatchWins ==
    sc.op \in {"route", "metrics"} =>
        /\ AtrociousRule(sc.m) => sc.state = "ATROCIOUS"
        /\ (CriticalRule(sc.m) /\ ~AtrociousRule(sc.m)) => sc.state = "CRITICAL"
        /\ (StrugglingRule(sc.m) /\ ~AtrociousRule(sc.m) /\ ~CriticalRule(sc.m))
              => sc.state = "STRUGGLING"
        /\ sc.state \in {"HEALTHY", "THRIVING", "FANTASTIC"} => ~WorseRule(sc.m)

\* Three ratios as good as FANTASTIC asks and a debt ratio of 1.2: STRUGGLING
C12_Witness ==
    /\ sc.op = "metrics"
    /\ sc.m.inc > 0
    /\ Le(sc.m.budget_ratio, 60, 100) /\ Gt(sc.m.runway_months, 12, 1)
    /\ Ge(sc.m.invest_rate, 15, 100) /\ sc.m.dti = <<120, 100>>
    /\ sc.state = "STRUGGLING"

\* The index of a tier in ALLOWED_STATES, worst first
RankOf(s) == CHOOSE i \in 1..Len(ALLOWED_STATES) : ALLOWED_STATES[i] = s

WorstThree == {"ATROCIOUS", "CRITICAL", "STRUGGLING"}

BestThree == {"HEALTHY", "THRIVING", "FANTASTIC"}

\* C13 as stated: of two metrics tuples, the one pickState places in a
\* strictly worse tier never has the greater computeHealth.
C13_HealthMonotoneInState ==
    (sc.op = "pair" /\ RankOf(sc.state) < RankOf(sc.state2)) =>
        sc.health <= sc.health2

\* C13, amended: health and tier agree across the middle of the scale.  A
\* tuple placed in ATROCIOUS, CRITICAL or STRUGGLING never has a greater health
\* than a tuple placed in HEALTHY, THRIVING or FANTASTIC: of the tuples that
\* computeMetrics returns, the former score at most 50, 75 and 85, the latter
\* at least 85.
C13_HealthMonotoneAcrossMiddle ==
    /\ (sc.op = "pair" /\ sc.state \in WorstThree /\ sc.state2 \in BestThree) =>
          sc.health <= sc.health2
    /\ sc.op \in {"pair", "route"} =>
          /\ sc.state = "ATROCIOUS" => sc.health <= 50
          /\ sc.state = "CRITICAL" => sc.health <= 75
          /\ sc.state = "STRUGGLING" => sc.health <= 85
          /\ sc.state \in BestThree => sc.health >= 85

\* The best STRUGGLING tuple against the worst HEALTHY one: 85 each
C13_Witness ==
    /\ sc.op = "pair"
    /\ sc.state = "STRUGGLING" /\ sc.health = 85
    /\ sc.state2 = "HEALTHY" /\ sc.health2 = 85

\* The inputs of the route are the scenario's: income 5000, spending 3000,
\* savings 10000, debt 2000, monthly investments 500
Scenario(i) ==
    /\ NumberOrZero(i.monthly_income) = 5000
    /\ NumberOrZero(i.monthly_spending) = 3000
    /\ NumberOrZero(i.total_savings) = 10000
    /\ NumberOrZero(i.total_debt) = 2000
    /\ NumberOrZero(i.monthly_investments) = 500

\* The two ratios are the same number
SameRatio(r, a, b) == Le(r, a, b) /\ Ge(r, a, b)

\* C14: for income 5000, spending 3000, savings 10000, debt 2000 and monthly
\* investments 500 the route computes the ratios 0.6, 10/3, 0.10 and 0.40,
\* classifies the user as HEALTHY and returns a health of 90, which the clamp
\* leaves as it is.
C14_ScenarioHealthy90 ==
    (sc.op = "route" /\ Scenario(sc.arg)) =>
        /\ SameRatio(sc.m.budget_ratio, 6, 10)
        /\ SameRatio(sc.m.runway_months, 10, 3)
        /\ SameRatio(sc.m.invest_rate, 10, 100)
        /\ SameRatio(sc.m.dti, 40, 100)
        /\ sc.state = "HEALTHY"
        /\ RawHealth(sc.m) = 90
        /\ sc.health = 90

\* The scenario, given as numbers, was evaluated
C14_Witness ==
    /\ sc.op = "route"
    /\ sc.arg.monthly_income = Num(5000)
    /\ Scenario(sc.arg)
    /\ sc.state = "HEALTHY" /\ sc.health = 90

\* C15: for every record of raw inputs, computeMetrics (and localMetrics after
\* prepareInputs) returns four ratios that are all non-negative, with
\* invest_rate and runway_months finite and budget_ratio and dti infinite
\* exactly when the income is 0 or less.
C15_RatiosNonNegative ==
    sc.op \in {"route", "local"} =>
        /\ Ge(sc.m.budget_ratio, 0, 1) /\ Ge(sc.m.runway_months, 0, 1)
        /\ Ge(sc.m.invest_rate, 0, 1) /\ Ge(sc.m.dti, 0, 1)
        /\ IsFiniteRatio(sc.m.invest_rate) /\ IsFiniteRatio(sc.m.runway_months)
        /\ (sc.m.budget_ratio = PosInf) <=> (sc.m.inc <= 0)
        /\ (sc.m.dti = PosInf) <=> (sc.m.inc <= 0)

\* A headline and exactly three advice lines, none of them empty
HeadlineAndThree(r) ==
    /\ r.headline # <<>>
    /\ Len(r.advice) = 3
    /\ \A i \in 1..3 : r.advice[i] # <<>>

\* C16: for every input record, computeLocalFallback returns a non-empty
\* headline and exactly 3 non-empty advice strings, and finalizeForUI keeps
\* them: its result has a non-empty headline and 3 non-empty advice strings.
C16_FallbackHeadlineAndThree ==
    sc.op = "fallback" =>
        /\ HeadlineAndThree(sc.local)
        /\ HeadlineAndThree(sc.final)
        /\ sc.final.headline = sc.local.headline
        /\ sc.final.advice = sc.local.advice

\* No income: the fallback of the worst tier, with its three generic or
\* infinite lines, went through the post-processing
C16_Witness ==
    /\ sc.op = "fallback"
    /\ sc.m.inc = 0 /\ sc.m.budget_ratio = PosInf
    /\ sc.local.state = "FLATLINED"
    /\ Len(sc.final.advice) = 3
    /\ sc.final.headline # <<>>

\* The line holds a digit
HasDigit(s) == \E i \in 1..Len(s) : s[i] \in {DigitChars[k] : k \in 1..10}

\* C17: every one of the 3 advice lines of the local advice generators
\* (computeLocalFallback on the client, buildLocalAdvice on the server)
\* embeds at least one number, for every metrics tuple and so for every branch
\* of the templates.
C17_EveryLineEmbedsNumber ==
    /\ sc.op = "fallback" => \A i \in 1..3 : HasDigit(sc.local.advice[i])
    /\ sc.op = "advice" => \A i \in 1..3 : HasDigit(sc.advice[i])

(***************************************************************************)
(* Properties of the text helpers (TextSpec)                               *)
(***************************************************************************)
\* C18: sanitizeLine is idempotent: applied to its own result it returns that
\* result.
C18_SanitizeIdempotent ==
    sc.op = "sanitize" => sc.twice = sc.out

\* The shorthand, a percent sign and an emoji were rewritten by the first
\* application and left alone by the second
C18_Witness ==
    /\ sc.op = "sanitize"
    /\ sc.arg = <<"m", "o", "%", "U+2600">>
    /\ sc.out = Months \o Percent \o <<".">>
    /\ sc.twice = sc.out

\* C19: for any input string, the result of sanitizeLine holds no '%', no
\* '/', no '(' or ')', no ':' and no character of the emoji ranges.
C19_NoBannedSymbols ==
    sc.op = "sanitize" =>
        \A i \in 1..Len(sc.out) :
            sc.out[i] \notin {"%", "/", "(", ")", ":"} \cup EmojiChars

\* C20: shorten(s, max) returns the trimmed input unchanged when it has at
\* most max characters; otherwise the result has at most max characters and
\* ends in exactly one period, and, where the first max characters hold a
\* space, it is the text before the last run of spaces among them, without
\* its closing punctuation, and that period.
C20_ShortenWithinLimit ==
    sc.op = "shorten" =>
        LET t == Trim(sc.arg)
            r == sc.out
        IN  IF Len(t) <= sc.max THEN r = t
            ELSE /\ Len(r) <= sc.max
                 /\ Last(r) = "."
                 /\ Len(r) > 1 => r[Len(r) - 1] \notin SentenceEnd
                 /\ \A k \in 1..sc.max :
                       (/\ t[k] \in WhiteSpace
                        /\ \A j \in (k + 1)..sc.max : t[j] \notin WhiteSpace)
                       => \E n \in 0..(k - 1) :
                             r = Append(SubSeq(t, 1, n), ".")

\* The places of a cleaned advice list holding a line that is not empty and
\* that no earlier place holds in any casing
FirstOccurrences(c) ==
    {k \in 1..Len(c) :
        /\ c[k] # <<>>
        /\ \A j \in 1..(k - 1) : toLowerCase(c[j]) # toLowerCase(c[k])}

\* C21: the advice list returned by finalizeForUI has at most three entries,
\* none empty, no two equal when compared case-insensitively, and its entries
\* are the first occurrences of the cleaned source list, in their order and
\* in their casing.
C21_AdviceUniqueAtMostThree ==
    sc.op = "finalize" =>
        LET out == sc.final.advice
            firsts == FirstOccurrences(sc.cleaned)
        IN  /\ Len(out) <= 3
            /\ \A i \in 1..Len(out) : out[i] # <<>>
            /\ \A i, j \in 1..Len(out) :
                  i # j => toLowerCase(out[i]) # toLowerCase(out[j])
            /\ Len(out) = Min(3, Cardinality(firsts))
            /\ \A i \in 1..Len(out) :
                  \E k \in firsts :
                     /\ Cardinality({j \in firsts : j <= k}) = i
                     /\ out[i] = sc.cleaned[k]

\* A list with a line repeated in another casing after a different line, and
\* a line that cleans to nothing: the first casing is kept
C21_Witness ==
    /\ sc.op = "finalize"
    /\ sc.arg = <<T_Cut, T_OnlySun, T_Save, T_CutUpper>>
    /\ Len(sc.final.advice) = 2
    /\ sc.final.advice[1] = sanitizeLine(T_Cut)

\* The text extractJson scans: the fences removed, then trimmed
Scanned(text) == TrimWs(SelectSeq(text, LAMBDA k : k.t # "fence"))

\* The brace that returns the depth to zero for the group opened at s
ClosesAt(t, s, e) ==
    /\ e >= s /\ DepthAt(SubSeq(t, s, e), e - s + 1) = 0
    /\ \A j \in s..(e - 1) : DepthAt(SubSeq(t, s, j), j - s + 1) > 0

\* The start positions whose group closes and parses
ParsingStarts(t) ==
    {s \in 1..Len(t) :
        /\ t[s].t = "lb"
        /\ \E e \in s..Len(t) : ClosesAt(t, s, e) /\ JsonParse(SubSeq(t, s, e)).ok}

\* No brace group of the text closes and parses
NoJsonGroup(t) == ParsingStarts(t) = {}

\* The result is the one the scan is described to give: the whole text when
\* it parses, else the leftmost group that closes and parses, else null
FirstParsingGroup ==
    LET t == Scanned(sc.pre \o sc.mid \o sc.post)
    IN  IF t = <<>> THEN ~sc.out.ok
        ELSE IF JsonParse(t).ok THEN sc.out = JsonParse(t)
        ELSE IF NoJsonGroup(t) THEN ~sc.out.ok
        ELSE \E s \in ParsingStarts(t) : \E e \in s..Len(t) :
                /\ \A r \in ParsingStarts(t) : s <= r
                /\ ClosesAt(t, s, e)
                /\ sc.out = JsonParse(SubSeq(t, s, e))

\* The object in the middle of the text is the one returned
ObjectRecovered ==
    (/\ sc.mid \in ObjectTexts
     /\ NoJsonGroup(sc.pre) /\ NoJsonGroup(sc.post))
    => /\ sc.out.ok
       /\ sc.out.value = JsonParse(sc.mid).value

\* C22: extractJson returns the whole text when it parses, else the first
\* brace group, from the left, that closes and parses, and null only when
\* there is none; so for prose, then one valid JSON object, then prose in
\* which no brace group is JSON, the object is returned.
C22_ObjectRecoveredFromProse ==
    sc.op = "extract" => FirstParsingGroup /\ ObjectRecovered

(***************************************************************************)
(* The bank page (src/public/script.js): balance, daily progress, the      *)
(* long-term analysis and the pet display.                                 *)
(*                                                                         *)
(* localStorage.  An item is <<>> when its key is absent and <<v>> when it *)
(* holds v.  Money amounts are whole dollars; a score is the exact         *)
(* fraction n/d until Math.round is taken.                                 *)
(***************************************************************************)
NoItem == <<>>

Item(v) == <<v>>

\* parseFloat(localStorage.getItem(key)) || 0, parseInt(...) || 0
FloatOrZero(item) == IF item = NoItem THEN 0 ELSE item[1]

NoStore ==
    [ currentBalance |-> NoItem, initialBalance |-> NoItem,
      monthlyEarnings |-> NoItem, monthlyBudget |-> NoItem,
      pennyState |-> NoItem,
      dayCount |-> NoItem, dailyDeposit |-> NoItem, dailyWithdraw |-> NoItem,
      totalDeposits |-> NoItem, totalWithdrawals |-> NoItem,
      lastAction |-> NoItem ]

\* null for lastAction
NoAction == "null"

getProgress(store) ==
    [ dayCount         |-> FloatOrZero(store.dayCount),
      dailyDeposit     |-> FloatOrZero(store.dailyDeposit),
      dailyWithdraw    |-> FloatOrZero(store.dailyWithdraw),
      totalDeposits    |-> FloatOrZero(store.totalDeposits),
      totalWithdrawals |-> FloatOrZero(store.totalWithdrawals),
      lastAction       |-> IF store.lastAction \in {NoItem, Item("")}
                           THEN NoAction ELSE store.lastAction[1] ]

saveProgress(store, p) ==
    [store EXCEPT
        !.dayCount         = Item(p.dayCount),
        !.dailyDeposit     = Item(p.dailyDeposit),
        !.dailyWithdraw    = Item(p.dailyWithdraw),
        !.totalDeposits    = Item(p.totalDeposits),
        !.totalWithdrawals = Item(p.totalWithdrawals),
        !.lastAction       = Item(IF p.lastAction = NoAction THEN ""
                                  ELSE p.lastAction)]

ZeroProgress ==
    [ dayCount |-> 0, dailyDeposit |-> 0, dailyWithdraw |-> 0,
      totalDeposits |-> 0, totalWithdrawals |-> 0, lastAction |-> NoAction ]

resetProgress(store) == saveProgress(store, ZeroProgress)

getCurrentBalance(store) == FloatOrZero(store.currentBalance)

getFinancialData(store) ==
    [ initialBalance  |-> FloatOrZero(store.initialBalance),
      monthlyEarnings |-> FloatOrZero(store.monthlyEarnings),
      monthlyBudget   |-> FloatOrZero(store.monthlyBudget) ]

\* Math.max(lo, Math.min(hi, x))
Clamp(x, lo, hi) == Max(lo, Min(hi, x))

\* The length of the monthly cycle in days
CYCLE_DAYS == 30

\* The score of computeOverallHealth for a progress record, a balance and the
\* financial data.  d1 is the starting balance (1 when it is 0), d2 the days
\* so far times the monthly budget, or times the monthly earnings when there
\* is no budget; the four adjustments are kept as numerators over d1 and d2.
OverallHealth(progress, currentBal, fin) ==
    LET initBal == IF fin.initialBalance = 0 THEN 1 ELSE fin.initialBalance
        days == IF progress.dayCount = 0 THEN 1 ELSE progress.dayCount
        net == progress.totalDeposits - progress.totalWithdrawals
        base == IF fin.monthlyBudget > 0 THEN fin.monthlyBudget
                ELSE IF fin.monthlyEarnings > 0 THEN fin.monthlyEarnings
                ELSE 0
        d1 == initBal
        d2 == IF base > 0 THEN days * base ELSE 1
        balance == Clamp((currentBal - fin.initialBalance) * 50,
                         -40 * d1, 40 * d1)
        momentum == Clamp(net, -d1, d1) * 10
        daily == IF base > 0
                 THEN Clamp(net * CYCLE_DAYS, -d2, d2) * 10
                 ELSE 0
        spent == (0 - net) * CYCLE_DAYS
        budget == IF fin.monthlyBudget > 0
                  THEN IF spent > d2
                       THEN 0 - Min(20 * d2, (spent - d2) * 20)
                       ELSE Min(10 * d2, (d2 - spent) * 10)
                  ELSE 0
    IN  Clamp(MathRound(50 * d1 * d2 + (balance + momentum) * d2
                                     + (daily + budget) * d1,
                        d1 * d2),
              0, 100)

computeOverallHealth(store) ==
    OverallHealth(getProgress(store), getCurrentBalance(store),
                  getFinancialData(store))

\* The page between two handlers.  overallAnalysis and overallHealthState
\* refer to one object whenever a handler has returned (every assignment of
\* the one is followed by updatePetDisplay(.., false), which assigns both),
\* so the field overallAnalysis stands for both.  timers holds, for every
\* revert that is scheduled, the time left until it fires; revertTimeout is
\* the one scheduled last.
NoPage ==
    [ store |-> NoStore,
      overallAnalysis |-> NoItem,
      timers |-> <<>>,
      tempSpeech |-> "",
      stateName |-> "", petState |-> "", healthBar |-> NoItem,
      message |-> "" ]

\* finalizeDay: the health is computed by computeOverallHealth, which reads
\* the stored progress, before saveProgress(p) stores the new totals
finalizeDay(s, depositAmt, withdrawAmt) ==
    LET p == getProgress(s.store)
        q == [p EXCEPT !.totalDeposits = @ + depositAmt,
                       !.totalWithdrawals = @ + withdrawAmt,
                       !.dayCount = @ + 1]
        r == IF q.dayCount >= CYCLE_DAYS
             THEN [q EXCEPT !.dayCount = 0, !.totalDeposits = 0,
                            !.totalWithdrawals = 0]
             ELSE q
        newHealth == computeOverallHealth(s.store)
    IN  [s EXCEPT
           !.overallAnalysis =
               IF @ = NoItem THEN @
               ELSE Item([@[1] EXCEPT !.health = newHealth,
                                      !.state = stateFromHealth(newHealth)]),
           !.store = saveProgress(s.store, r)]

\* handleDepositProgress: p is read before finalizeDay runs and saved after
handleDepositProgress(s, amount) ==
    LET p == getProgress(s.store)
    IN  IF p.lastAction = "deposit"
        THEN LET t == finalizeDay(s, p.dailyDeposit, 0)
             IN  [t EXCEPT !.store =
                     saveProgress(t.store,
                         [p EXCEPT !.dailyDeposit = amount,
                                   !.dailyWithdraw = 0,
                                   !.lastAction = "deposit"])]
        ELSE IF p.lastAction = "withdraw"
        THEN LET t == finalizeDay(s, amount, p.dailyWithdraw)
             IN  [t EXCEPT !.store =
                     saveProgress(t.store,
                         [p EXCEPT !.dailyDeposit = 0,
                                   !.dailyWithdraw = 0,
                                   !.lastAction = NoAction])]
        ELSE [s EXCEPT !.store =
                 saveProgress(s.store,
                     [p EXCEPT !.dailyDeposit = amount,
                               !.dailyWithdraw = 0,
                               !.lastAction = "deposit"])]

handleWithdrawProgress(s, amount) ==
    LET p == getProgress(s.store)
    IN  IF p.lastAction = "withdraw"
        THEN LET t == finalizeDay(s, 0, p.dailyWithdraw)
             IN  [t EXCEPT !.store =
                     saveProgress(t.store,
                         [p EXCEPT !.dailyDeposit = 0,
                                   !.dailyWithdraw = amount,
                                   !.lastAction = "withdraw"])]
        ELSE IF p.lastAction = "deposit"
        THEN LET t == finalizeDay(s, p.dailyDeposit, amount)
             IN  [t EXCEPT !.store =
                     saveProgress(t.store,
                         [p EXCEPT !.dailyDeposit = 0,
                                   !.dailyWithdraw = 0,
                                   !.lastAction = NoAction])]
        ELSE [s EXCEPT !.store =
                 saveProgress(s.store,
                     [p EXCEPT !.dailyDeposit = 0,
                               !.dailyWithdraw = amount,
                               !.lastAction = "withdraw"])]

\* The delay of the revert, in milliseconds
REVERT_MS == 3000

\* clearTimeout(revertTimeout): the revert scheduled last, when it has not
\* fired yet
clearTimeout(timers) ==
    IF timers = <<>> THEN timers ELSE SubSeq(timers, 1, Len(timers) - 1)

\* The revert scheduled before is left to run
MutUpdateNoCancel(s, analysis, isTemporary, updateBarWhenTemporary) ==
    LET current == petAllowedState(analysis.state)
        safeMsg == analysis.message
    IN  [s EXCEPT
           !.petState = current,
           !.stateName = IF isTemporary /\ analysis.state # ""
                         THEN analysis.state ELSE current,
           !.healthBar = IF updateBarWhenTemporary \/ ~isTemporary
                         THEN Item(Clamp(analysis.health, 0, 100)) ELSE @,
           !.message = IF isTemporary
                       THEN (IF safeMsg # "" THEN safeMsg ELSE @)
                       ELSE IF s.tempSpeech # "" THEN s.tempSpeech
                       ELSE IF safeMsg # "" THEN safeMsg ELSE @,
           !.tempSpeech = IF isTemporary /\ safeMsg # "" THEN safeMsg ELSE @,
           !.overallAnalysis = IF isTemporary THEN @ ELSE Item(analysis),
           !.timers =
               IF isTemporary /\ s.overallAnalysis # NoItem
               THEN Append(@, REVERT_MS)
               ELSE @]

\* updatePetDisplay(analysis, isTemporary, updateBarWhenTemporary), for an
\* analysis whose health is a number
updatePetDisplay(s, analysis, isTemporary, updateBarWhenTemporary) ==
    LET current == petAllowedState(analysis.state)
        safeMsg == analysis.message
    IN  [s EXCEPT
           !.petState = current,
           !.stateName = IF isTemporary /\ analysis.state # ""
                         THEN analysis.state ELSE current,
           !.healthBar = IF updateBarWhenTemporary \/ ~isTemporary
                         THEN Item(Clamp(analysis.health, 0, 100)) ELSE @,
           !.message = IF isTemporary
                       THEN (IF safeMsg # "" THEN safeMsg ELSE @)
                       ELSE IF s.tempSpeech # "" THEN s.tempSpeech
                       ELSE IF safeMsg # "" THEN safeMsg ELSE @,
           !.tempSpeech = IF isTemporary /\ safeMsg # "" THEN safeMsg ELSE @,
           !.overallAnalysis = IF isTemporary THEN @ ELSE Item(analysis),
           !.timers =
               IF isTemporary /\ s.overallAnalysis # NoItem
               THEN Append(clearTimeout(@), REVERT_MS)
               ELSE @]

savePetState(s, analysis) == [s EXCEPT !.store.pennyState = Item(analysis)]

setCurrentBalance(s, amount) == [s EXCEPT !.store.currentBalance = Item(amount)]

\* parseFloat of the texts typed into the amount and finance fields; <<>> is
\* NaN
ParseFloat ==
    [t \in {"", "abc", "0", "-5", "10", "20", "600", "300"} |->
        CASE t = "0" -> Item(0) [] t = "-5" -> Item(-5) [] t = "10" -> Item(10)
          [] t = "20" -> Item(20) [] t = "600" -> Item(600)
          [] t = "300" -> Item(300) [] OTHER -> NoItem]

\* The weighted ratio of an amount to the balance, the daily budget and the
\* monthly earnings is at least a/b.  The ratio is n/(w * d) with d the
\* product of the three that are positive.
EffectiveAtLeast(amount, currentBal, fin, a, b) ==
    LET hasBal == currentBal > 0
        hasBud == fin.monthlyBudget > 0
        hasEarn == fin.monthlyEarnings > 0
        c == IF hasBal THEN currentBal ELSE 1
        u == IF hasBud THEN fin.monthlyBudget ELSE 1
        e == IF hasEarn THEN fin.monthlyEarnings ELSE 1
        w == (IF hasBal THEN 1 ELSE 0) + (IF hasBud THEN 2 ELSE 0)
             + (IF hasEarn THEN 1 ELSE 0)
        n == amount * ((IF hasBal THEN u * e ELSE 0)
                       + (IF hasBud THEN 2 * CYCLE_DAYS * c * e ELSE 0)
                       + (IF hasEarn THEN c * u ELSE 0))
    IN  w > 0 /\ n * b >= a * w * c * u * e

DepositReaction(amount, currentBal, fin) ==
    IF EffectiveAtLeast(amount, currentBal, fin, 3, 4) THEN "FANTASTIC"
    ELSE IF EffectiveAtLeast(amount, currentBal, fin, 1, 2) THEN "THRIVING"
    ELSE "HEALTHY"

WithdrawReaction(amount, currentBal, fin) ==
    IF EffectiveAtLeast(amount, currentBal, fin, 3, 4) THEN "ATROCIOUS"
    ELSE IF EffectiveAtLeast(amount, currentBal, fin, 1, 2) THEN "CRITICAL"
    ELSE IF EffectiveAtLeast(amount, currentBal, fin, 1, 4) THEN "STRUGGLING"
    ELSE "SURVIVING"

\* The long-term analysis after a transaction: created when there is none,
\* else its health and state replaced
Rescored(s) ==
    LET newOverallHealth == computeOverallHealth(s.store)
        newState == stateFromHealth(newOverallHealth)
    IN  IF s.overallAnalysis = NoItem
        THEN [state |-> newState, health |-> newOverallHealth,
              message |-> "", direction |-> ""]
        ELSE [s.overallAnalysis[1] EXCEPT !.health = newOverallHealth,
                                          !.state = newState]

\* The page after the balance is set: the long-term analysis rescored,
\* displayed and saved
AfterBalance(s) ==
    LET a == Rescored(s)
    IN  savePetState(updatePetDisplay(s, a, FALSE, FALSE), a)

\* The long-term analysis and the health bar of a page
Shown(s) == [overallAnalysis |-> s.overallAnalysis, healthBar |-> s.healthBar]

\* The balance check of handleWithdraw left out
MutWithdrawNoBalanceCheck(s, text) ==
    LET amount == ParseFloat[text]
        t == [s EXCEPT !.tempSpeech = ""]
    IN  IF amount = NoItem \/ amount[1] <= 0
        THEN [page |-> t, rejected |-> TRUE, mid |-> Shown(t)]
        ELSE LET b == AfterBalance(
                          setCurrentBalance(t, getCurrentBalance(t.store)
                                               - amount[1]))
                 petReaction ==
                     [state |-> WithdrawReaction(amount[1],
                                    getCurrentBalance(b.store),
                                    getFinancialData(b.store)),
                      health |-> b.overallAnalysis[1].health,
                      message |-> "withdrew", direction |-> "down"]
                 m == handleWithdrawProgress(b, amount[1])
             IN  [page |-> updatePetDisplay(m, petReaction, TRUE, FALSE),
                  rejected |-> FALSE, mid |-> Shown(m)]

\* handleDeposit on the text of the amount field: the page it leaves, whether
\* it returned at its check, and the page as updatePetDisplay(petReaction,
\* true) found it
handleDeposit(s, text) ==
    LET amount == ParseFloat[text]
        t == [s EXCEPT !.tempSpeech = ""]
    IN  IF amount = NoItem \/ amount[1] <= 0
        THEN [page |-> t, rejected |-> TRUE, mid |-> Shown(t)]
        ELSE LET b == AfterBalance(
                          setCurrentBalance(t, getCurrentBalance(t.store)
                                               + amount[1]))
                 petReaction ==
                     [state |-> DepositReaction(amount[1],
                                    getCurrentBalance(b.store),
                                    getFinancialData(b.store)),
                      health |-> b.overallAnalysis[1].health,
                      message |-> "deposited", direction |-> "up"]
                 m == handleDepositProgress(b, amount[1])
             IN  [page |-> updatePetDisplay(m, petReaction, TRUE, FALSE),
                  rejected |-> FALSE, mid |-> Shown(m)]

handleWithdraw(s, text) ==
    LET amount == ParseFloat[text]
        t == [s EXCEPT !.tempSpeech = ""]
    IN  IF amount = NoItem \/ amount[1] <= 0
           \/ amount[1] > getCurrentBalance(t.store)
        THEN [page |-> t, rejected |-> TRUE, mid |-> Shown(t)]
        ELSE LET b == AfterBalance(
                          setCurrentBalance(t, getCurrentBalance(t.store)
                                               - amount[1]))
                 petReaction ==
                     [state |-> WithdrawReaction(amount[1],
                                    getCurrentBalance(b.store),
                                    getFinancialData(b.store)),
                      health |-> b.overallAnalysis[1].health,
                      message |-> "withdrew", direction |-> "down"]
                 m == handleWithdrawProgress(b, amount[1])
             IN  [page |-> updatePetDisplay(m, petReaction, TRUE, FALSE),
                  rejected |-> FALSE, mid |-> Shown(m)]

eggState == [state |-> "EGG", health |-> 0, message |-> "egg", direction |-> ""]

handleReset(s) ==
    LET t == [s EXCEPT !.tempSpeech = "",
                       !.store.currentBalance = NoItem,
                       !.store.initialBalance = NoItem,
                       !.store.monthlyEarnings = NoItem,
                       !.store.monthlyBudget = NoItem,
                       !.store.pennyState = NoItem]
    IN  updatePetDisplay(t, eggState, FALSE, FALSE)

\* handleFeedPenny up to its await: <<>> when a field is empty
FeedSaved(s, form) ==
    LET t == [s EXCEPT !.tempSpeech = ""]
    IN  IF \E i \in 1..3 : form[i] = ""
        THEN [page |-> t, rejected |-> TRUE]
        ELSE LET u == [t EXCEPT
                          !.store.initialBalance = ParseFloat[form[1]],
                          !.store.monthlyEarnings = ParseFloat[form[2]],
                          !.store.monthlyBudget = ParseFloat[form[3]],
                          !.message = "analyzing"]
             IN  [page |-> IF getCurrentBalance(u.store) = 0
                           THEN setCurrentBalance(u,
                                    FloatOrZero(ParseFloat[form[1]]))
                           ELSE u,
                  rejected |-> FALSE]

\* handleFeedPenny after its await, with the analysis returned
FeedAnalyzed(s, analysis) ==
    LET t == [s EXCEPT !.overallAnalysis = Item(analysis),
                       !.store = resetProgress(s.store)]
        u == savePetState(updatePetDisplay(t, analysis, FALSE, FALSE), analysis)
    IN  [u EXCEPT !.message = IF analysis.message # "" THEN analysis.message
                              ELSE "complete"]

\* The revert callback
Reverted(s) ==
    LET t == [s EXCEPT !.timers = Tail(@)]
    IN  savePetState(updatePetDisplay(t, s.overallAnalysis[1], FALSE, FALSE),
                     s.overallAnalysis[1])

\* The page after a reload: the store kept, loadPetState run
Loaded(s) ==
    LET t == [NoPage EXCEPT !.store = s.store]
    IN  IF s.store.pennyState = NoItem THEN t
        ELSE updatePetDisplay(t, s.store.pennyState[1], FALSE, FALSE)

(***************************************************************************)
(* The bank page as a machine: sc.page is the page, sc.text the text the   *)
(* last deposit or withdrawal read, sc.mid the long-term analysis and the  *)
(* health bar as the last temporary reaction found them, sc.elapsed the    *)
(* time since the latest temporary reaction, sc.reverts the reverts fired  *)
(* since.                                                                  *)
(***************************************************************************)
\* The largest balance a deposit may reach
MaxBalance == 40

AmountTexts == {"abc", "0", "-5", "10", "20"}

\* The finance forms: initial balance, monthly earnings, monthly budget
FinanceForms == {<<"20", "600", "300">>, <<"0", "600", "0">>, <<"20", "", "300">>}

\* What analyzeFinancialData resolves with
AnalysisResults ==
    { [state |-> "HEALTHY", health |-> 72, message |-> "analysis",
       direction |-> ""],
      [state |-> "LEGENDARY", health |-> 95, message |-> "analysis",
       direction |-> ""] }

PageInit ==
    /\ sc = [ op |-> "load", page |-> NoPage, mid |-> Shown(NoPage),
              text |-> "", rejected |-> FALSE, feeding |-> FALSE,
              elapsed |-> REVERT_MS, reverts |-> 0 ]
    /\ CallsInit

\* The bookkeeping of a handler that returned result r
Handled(op, text, r) ==
    [sc EXCEPT !.op = op, !.text = text, !.page = r.page,
               !.mid = r.mid, !.rejected = r.rejected,
               !.elapsed = IF r.rejected THEN @ ELSE 0,
               !.reverts = IF r.rejected THEN @ ELSE 0]

Deposit ==
    \E text \in AmountTexts :
        LET r == handleDeposit(sc.page, text)
        IN  /\ getCurrentBalance(r.page.store) <= MaxBalance
            /\ sc' = Handled("deposit", text, r)
            /\ UNCHANGED <<calls, petMessage>>

Withdraw ==
    \E text \in AmountTexts :
        /\ sc' = Handled("withdraw", text, handleWithdraw(sc.page, text))
        /\ UNCHANGED <<calls, petMessage>>

Reset ==
    /\ sc' = [sc EXCEPT !.op = "reset", !.page = handleReset(sc.page),
                        !.rejected = FALSE]
    /\ UNCHANGED <<calls, petMessage>>

FeedPenny ==
    /\ ~sc.feeding
    /\ \E form \in FinanceForms :
          LET r == FeedSaved(sc.page, form)
          IN  sc' = [sc EXCEPT !.op = "feed", !.page = r.page,
                               !.rejected = r.rejected,
                               !.feeding = ~r.rejected]
    /\ UNCHANGED <<calls, petMessage>>

FeedDone ==
    /\ sc.feeding
    /\ \E analysis \in AnalysisResults :
          sc' = [sc EXCEPT !.op = "fed",
                           !.page = FeedAnalyzed(sc.page, analysis),
                           !.rejected = FALSE, !.feeding = FALSE]
    /\ UNCHANGED <<calls, petMessage>>

\* A revert is due
Due(s) == s.timers # <<>> /\ Head(s.timers) = 0

\* The clock advances by one second unless a revert is due
Tick ==
    /\ ~Due(sc.page)
    /\ sc' = [sc EXCEPT !.op = "tick",
                        !.page.timers =
                            [i \in 1..Len(@) |-> @[i] - 1000],
                        !.elapsed = Min(@ + 1000, REVERT_MS)]
    /\ UNCHANGED <<calls, petMessage>>

RevertFire ==
    /\ Due(sc.page)
    /\ sc' = [sc EXCEPT !.op = "revert", !.page = Reverted(sc.page),
                        !.rejected = FALSE, !.reverts = Min(@ + 1, 2)]
    /\ UNCHANGED <<calls, petMessage>>

Reload ==
    /\ sc' = [sc EXCEPT !.op = "load", !.page = Loaded(sc.page),
                        !.rejected = FALSE, !.feeding = FALSE,
                        !.elapsed = REVERT_MS, !.reverts = 0]
    /\ UNCHANGED <<calls, petMessage>>

PageNext ==
    \/ Deposit \/ Withdraw \/ Reset \/ FeedPenny \/ FeedDone \/ Tick
    \/ RevertFire \/ Reload

PageSpec == PageInit /\ [][PageNext]_vars

\* Time passes and a timer that is due fires
PageFairSpec == PageSpec /\ WF_vars(Tick) /\ WF_vars(RevertFire)

(***************************************************************************)
(* Properties of the bank page (PageSpec)                                  *)
(***************************************************************************)
\* The step is a deposit or a withdrawal that was not rejected
Transaction == sc'.op \in {"deposit", "withdraw"} /\ ~sc'.rejected

\* The amount the handler of the step read
AmountOf == ParseFloat[sc'.text][1]

\* The progress after a day with the given amounts is added to progress p
WithDay(p, depositAmt, withdrawAmt) ==
    IF p.dayCount + 1 >= CYCLE_DAYS
    THEN [p EXCEPT !.dayCount = 0, !.totalDeposits = 0, !.totalWithdrawals = 0]
    ELSE [p EXCEPT !.dayCount = @ + 1,
                   !.totalDeposits = @ + depositAmt,
                   !.totalWithdrawals = @ + withdrawAmt]

\* The day a transaction closes: the pending amount and the new one when the
\* two actions differ, the pending amount and zero when they are the same
DayClosed(p, op, amount) ==
    IF p.lastAction = "deposit"
    THEN [deposit |-> p.dailyDeposit,
          withdraw |-> IF op = "withdraw" THEN amount ELSE 0]
    ELSE [deposit |-> IF op = "deposit" THEN amount ELSE 0,
          withdraw |-> p.dailyWithdraw]

\* C23: a deposit or withdrawal that follows a pending action finalizes one
\* day, with both amounts when the two actions differ (no action is pending
\* afterwards) and with zero for the missing one when they are the same (the
\* new action is pending afterwards); when the handler has returned the
\* stored progress has dayCount one higher and the totals higher by the
\* amounts of that day.
C23_DayFinalizedAndCounted ==
    [][ (Transaction /\ getProgress(sc.page.store).lastAction # NoAction)
        => LET p == getProgress(sc.page.store)
               q == getProgress(sc'.page.store)
               day == DayClosed(p, sc'.op, AmountOf)
               r == WithDay(p, day.deposit, day.withdraw)
           IN  /\ q.dayCount = r.dayCount
               /\ q.totalDeposits = r.totalDeposits
               /\ q.totalWithdrawals = r.totalWithdrawals
               /\ IF p.lastAction = sc'.op
                  THEN /\ q.lastAction = sc'.op
                       /\ q.dailyDeposit
                            = (IF sc'.op = "deposit" THEN AmountOf ELSE 0)
                       /\ q.dailyWithdraw
                            = (IF sc'.op = "withdraw" THEN AmountOf ELSE 0)
                  ELSE /\ q.lastAction = NoAction
                       /\ q.dailyDeposit = 0 /\ q.dailyWithdraw = 0 ]_vars

\* C24: the stored dayCount is always between 0 and 29; each finalized day
\* of a cycle is counted, and finalizing the 30th sets dayCount,
\* totalDeposits and totalWithdrawals back to 0.
C24_CycleResetsAtThirty ==
    /\ [](getProgress(sc.page.store).dayCount \in 0..(CYCLE_DAYS - 1))
    /\ [][ (Transaction /\ getProgress(sc.page.store).lastAction # NoAction)
           => LET p == getProgress(sc.page.store)
                  q == getProgress(sc'.page.store)
              IN  IF p.dayCount = CYCLE_DAYS - 1
                  THEN /\ q.dayCount = 0
                       /\ q.totalDeposits = 0 /\ q.totalWithdrawals = 0
                  ELSE q.dayCount = p.dayCount + 1 ]_vars

\* C25: when a transaction finalizes a day, the health and the state left in
\* the long-term analysis are those of the progress that includes that day.
C25_HealthCountsFinalizedDay ==
    [][ (Transaction /\ getProgress(sc.page.store).lastAction # NoAction)
        => LET p == getProgress(sc.page.store)
               day == DayClosed(p, sc'.op, AmountOf)
               health == OverallHealth(WithDay(p, day.deposit, day.withdraw),
                                       getCurrentBalance(sc'.page.store),
                                       getFinancialData(sc'.page.store))
           IN  /\ sc'.page.overallAnalysis # NoItem
               /\ sc'.page.overallAnalysis[1].health = health
               /\ sc'.page.overallAnalysis[1].state = stateFromHealth(health)
      ]_vars

(***************************************************************************)
(* Properties of the temporary reaction (PageFairSpec)                     *)
(***************************************************************************)
\* A temporary reaction has just been shown
Reacted == sc.op \in {"deposit", "withdraw"} /\ ~sc.rejected

\* The display shows the long-term analysis: its state under the name the
\* page has for it, and its health on the bar
ShowsLongTerm ==
    /\ sc.page.overallAnalysis # NoItem
    /\ sc.page.stateName = petAllowedState(sc.page.overallAnalysis[1].state)
    /\ sc.page.petState = sc.page.stateName
    /\ sc.page.healthBar
         = Item(Clamp(sc.page.overallAnalysis[1].health, 0, 100))

\* C26: a temporary reaction leaves the long-term analysis and the health
\* bar as it found them and replaces the revert that was scheduled, so at
\* most one revert is scheduled at any time; a revert fires only 3000 ms
\* after the latest reaction, it is the only one since that reaction, and the
\* display shows the long-term state after it; and a revert that is
\* scheduled fires, unless a newer reaction or a reload of the page comes
\* first.
C26_ReactionRevertsOnce ==
    /\ [](Reacted => /\ sc.page.overallAnalysis = sc.mid.overallAnalysis
                     /\ sc.page.healthBar = sc.mid.healthBar
                     /\ sc.page.timers = <<REVERT_MS>>)
    /\ [](Len(sc.page.timers) <= 1)
    /\ [][sc'.op = "revert" => sc.elapsed = REVERT_MS]_vars
    /\ [](sc.op = "revert" => sc.reverts = 1 /\ ShowsLongTerm)
    /\ (sc.page.timers # <<>>)
          ~> (sc.op \in {"revert", "load"} \/ sc.elapsed = 0)

\* A withdrawal followed a deposit, and the one revert since has fired: the
\* long-term state is shown, under the message of the reaction
C26_Witness ==
    /\ sc.op = "revert"
    /\ sc.reverts = 1
    /\ sc.page.tempSpeech = "withdrew"
    /\ sc.page.stateName = "FANTASTIC"

(***************************************************************************)
(* Properties of the deposit and withdrawal checks (PageSpec)              *)
(***************************************************************************)
\* The amount read by the handler of the step is not a number, is zero or
\* negative, or is a withdrawal of more than the balance
InvalidAmount ==
    LET amount == ParseFloat[sc'.text]
    IN  \/ amount = NoItem
        \/ amount[1] <= 0
        \/ sc'.op = "withdraw" /\ amount[1] > getCurrentBalance(sc.page.store)

\* C27: a deposit or withdrawal with an amount that is not a number, zero or
\* negative, and a withdrawal of more than the balance, is rejected and
\* leaves the balance, the daily progress and the long-term analysis as they
\* were; and no deposit or withdrawal makes a balance negative that was not.
C27_InvalidAmountsRejected ==
    [][ sc'.op \in {"deposit", "withdraw"}
        => /\ InvalidAmount
              => /\ sc'.rejected
                 /\ sc'.page.store = sc.page.store
                 /\ sc'.page.overallAnalysis = sc.page.overallAnalysis
           /\ getCurrentBalance(sc.page.store) >= 0
              => getCurrentBalance(sc'.page.store) >= 0 ]_vars

\* A withdrawal of 20 from a balance of 10 was rejected, a day being open
C27_Witness ==
    /\ sc.op = "withdraw" /\ sc.text = "20" /\ sc.rejected
    /\ getCurrentBalance(sc.page.store) = 10
    /\ getProgress(sc.page.store).lastAction = "deposit"

(***************************************************************************)
(* Properties of the reset (PageSpec)                                      *)
(***************************************************************************)
\* C28: after handleReset the balance, the finance data, the saved pet state
\* and the daily progress are cleared; the first deposit or withdrawal after
\* it opens a day, and a revert scheduled before it saves no pet state of
\* before the reset.
C28_ResetClearsEverything ==
    /\ [](sc.op = "reset"
            => /\ getCurrentBalance(sc.page.store) = 0
               /\ getFinancialData(sc.page.store)
                    = [initialBalance |-> 0, monthlyEarnings |-> 0,
                       monthlyBudget |-> 0]
               /\ sc.page.store.pennyState = NoItem
               /\ getProgress(sc.page.store) = ZeroProgress)
    /\ [][ sc.op = "reset"
           => /\ Transaction
                 => getProgress(sc'.page.store).lastAction = sc'.op
              /\ sc'.op = "revert"
                 => sc'.page.store.pennyState = Item(eggState) ]_vars


(***************************************************************************)
(* Tiers from the classifiers to the display                               *)
(***************************************************************************)
\* The tier names of the server and of the page, against those of the client
EnumerationsAgree ==
    /\ {ALLOWED_STATES[i] : i \in DOMAIN ALLOWED_STATES} = ClientAllowed \ {"EGG"}
    /\ PET_STATES \ {"EGG"} = ClientAllowed \ {"EGG"}

\* C29: server, client and page agree on the tier names, so the tier computed
\* by pickState, localPickState or stateFromHealth is accepted by
\* looksNormalized and is the tier updatePetDisplay shows, never the
\* SURVIVING default in its place.
C29_TierShownAsComputed ==
    sc.op = "tiers" =>
        /\ EnumerationsAgree
        /\ sc.accepted
        /\ sc.serverShown = sc.serverTier
        /\ sc.localShown = sc.localTier
        /\ sc.healthShown = sc.healthTier


(***************************************************************************)
(* The local scoring against the scoring of the server                     *)
(***************************************************************************)
\* The place of a tier in a list of tiers, 0 when it is not in the list
RankIn(list, tier) ==
    IF \E i \in DOMAIN list : list[i] = tier
    THEN CHOOSE i \in DOMAIN list : list[i] = tier
    ELSE 0

\* C30: for every inputs record, localMetrics returns the metrics of
\* computeMetrics, localHealth the health of computeHealth, and localPickState
\* the tier whose rank among the client's tiers is the rank of the tier of
\* pickState among the server's.
C30_LocalScoringEqualsServer ==
    sc.op = "both" =>
        /\ sc.lm = sc.m
        /\ sc.lhealth = sc.health
        /\ RankIn(ClientStates, sc.lstate) \in 1..7
        /\ RankIn(ClientStates, sc.lstate) = RankIn(ALLOWED_STATES, sc.state)

\* A record with an income, scored THRIVING with the same health on both
\* sides
C30_Witness ==
    /\ sc.op = "both"
    /\ sc.m.inc > 0
    /\ sc.state = "THRIVING" /\ sc.lstate = "THRIVING"
    /\ sc.health = sc.lhealth /\ sc.health > 50

=============================================================================
